---------------------------- MODULE Spec2Model ----------------------------
(***************************************************************************)
(* A model of the point/vector layer of tkoz::ff (PointData and            *)
(* PointMathBasic).  The element type (float / double) is modelled as a    *)
(* binary IEEE-754 format with Prec significand bits and exponents         *)
(* EMin..EMax: signed zeros, subnormals, infinities, NaN and               *)
(* round-to-nearest-even are kept, only the width is scaled down.          *)
(***************************************************************************)
EXTENDS Integers, Sequences, FiniteSets, TLC

(***************************************************************************)
(* Bounds of the model.                                                    *)
(***************************************************************************)
\* significand bits of the element type (24 for float, 53 for double)
Prec == 4
\* largest binary exponent of the element type (127 / 1023)
EMax == 3
\* largest dimension N instantiated (the code accepts 1..255)
MaxDim == 3
\* longest chain of in-place operations applied to one point
MaxOps == 2
\* bits of std::size_t (64 in the code; every dimension below 256 fits)
SizeBits == 8

(***************************************************************************)
(* The element type.  A value is [cls, sgn, mag]: cls is "fin", "inf" or   *)
(* "nan", sgn the sign bit, and mag the magnitude of a finite value in     *)
(* units of the smallest subnormal, 2^(EMin - (Prec - 1)).                 *)
(***************************************************************************)
RECURSIVE Pow2(_)
Pow2(n) == IF n <= 0 THEN 1 ELSE 2 * Pow2(n - 1)

EMin == 1 - EMax
\* 1.0 in units
One == Pow2(Prec - 1 - EMin)
\* the largest finite magnitude, (2^Prec - 1) * 2^(EMax - EMin) units
MaxFin == (Pow2(Prec) - 1) * Pow2(EMax - EMin)

Fin(s, m) == [cls |-> "fin", sgn |-> s, mag |-> m]
Inf(s) == [cls |-> "inf", sgn |-> s, mag |-> 0]
NaN == [cls |-> "nan", sgn |-> 0, mag |-> 0]
NegNaN == [cls |-> "nan", sgn |-> 1, mag |-> 0]

IsNaN(x) == x.cls = "nan"
IsInf(x) == x.cls = "inf"
IsFin(x) == x.cls = "fin"
IsZero(x) == x.cls = "fin" /\ x.mag = 0

\* The distance between neighbouring values at magnitude num/den: the least
\* power of two sp with num/den < 2^Prec * sp.
RECURSIVE Spacing(_, _, _)
Spacing(num, den, sp) ==
    IF num \div den < Pow2(Prec) * sp THEN sp ELSE Spacing(num, den, 2 * sp)

\* Round the exact magnitude num/den (units) to the nearest value of the
\* format, ties to the even significand; beyond MaxFin the result is infinite.
Round(s, num, den) ==
    LET sp == Spacing(num, den, 1)
        n == num \div (den * sp)
        twiceRem == 2 * (num - n * den * sp)
        up == \/ twiceRem > den * sp
              \/ twiceRem = den * sp /\ n % 2 = 1
        m == (IF up THEN n + 1 ELSE n) * sp
    IN IF m > MaxFin THEN Inf(s) ELSE Fin(s, m)

\* The set of magnitudes of the format.
Mags == {m \in 0..MaxFin : m % Spacing(m, 1, 1) = 0}
Floats == {Fin(s, m) : s \in {0, 1}, m \in Mags}
             \cup {Inf(0), Inf(1), NaN, NegNaN}

Xor(s, t) == (s + t) % 2
SVal(x) == IF x.sgn = 1 THEN 0 - x.mag ELSE x.mag
Abs(n) == IF n < 0 THEN 0 - n ELSE n
SignOf(n) == IF n < 0 THEN 1 ELSE 0

FNeg(x) == [x EXCEPT !.sgn = 1 - x.sgn]

\* x + y
FAdd(x, y) ==
    IF IsNaN(x) \/ IsNaN(y) THEN NaN
    ELSE IF IsInf(x) /\ IsInf(y) THEN (IF x.sgn = y.sgn THEN x ELSE NaN)
    ELSE IF IsInf(x) THEN x
    ELSE IF IsInf(y) THEN y
    ELSE LET v == SVal(x) + SVal(y)
         IN IF v = 0
            THEN Fin(IF x.sgn = 1 /\ y.sgn = 1 THEN 1 ELSE 0, 0)
            ELSE Round(SignOf(v), Abs(v), 1)

\* x - y
FSub(x, y) == IF IsNaN(y) THEN NaN ELSE FAdd(x, FNeg(y))

\* x * y
FMul(x, y) ==
    IF IsNaN(x) \/ IsNaN(y) THEN NaN
    ELSE IF (IsInf(x) /\ IsZero(y)) \/ (IsZero(x) /\ IsInf(y)) THEN NaN
    ELSE IF IsInf(x) \/ IsInf(y) THEN Inf(Xor(x.sgn, y.sgn))
    ELSE Round(Xor(x.sgn, y.sgn), x.mag * y.mag, One)

\* x / y
FDiv(x, y) ==
    IF IsNaN(x) \/ IsNaN(y) THEN NaN
    ELSE IF (IsInf(x) /\ IsInf(y)) \/ (IsZero(x) /\ IsZero(y)) THEN NaN
    ELSE IF IsInf(x) \/ IsZero(y) THEN Inf(Xor(x.sgn, y.sgn))
    ELSE IF IsInf(y) THEN Fin(Xor(x.sgn, y.sgn), 0)
    ELSE Round(Xor(x.sgn, y.sgn), x.mag * One, y.mag)

\* std::fma(x, y, z): x * y + z with a single rounding
FFma(x, y, z) ==
    IF IsNaN(x) \/ IsNaN(y) \/ IsNaN(z) THEN NaN
    ELSE IF (IsInf(x) /\ IsZero(y)) \/ (IsZero(x) /\ IsInf(y)) THEN NaN
    ELSE IF IsInf(x) \/ IsInf(y)
         THEN (IF IsInf(z) /\ z.sgn # Xor(x.sgn, y.sgn)
               THEN NaN ELSE Inf(Xor(x.sgn, y.sgn)))
    ELSE IF IsInf(z) THEN z
    ELSE LET ps == Xor(x.sgn, y.sgn)
             p == x.mag * y.mag
             v == (IF ps = 1 THEN 0 - p ELSE p) + SVal(z) * One
         IN IF v = 0
            THEN Fin(IF p = 0 /\ ps = 1 /\ z.sgn = 1 THEN 1 ELSE 0, 0)
            ELSE Round(SignOf(v), Abs(v), One)


\* operator== of the element type: NaN equals nothing, -0 equals +0
FEq(x, y) ==
    /\ ~IsNaN(x) /\ ~IsNaN(y)
    /\ \/ x = y
       \/ IsZero(x) /\ IsZero(y)

\* std::signbit
SignBit(x) == x.sgn = 1

\* std::abs
FAbs(x) == [x EXCEPT !.sgn = 0]

\* x < 0
IsNegative(x) == ~IsNaN(x) /\ ~IsZero(x) /\ x.sgn = 1

\* the largest r with r * r <= w, for lo * lo <= w < hi * hi
RECURSIVE ISqrt(_, _, _)
ISqrt(w, lo, hi) ==
    IF hi - lo <= 1 THEN lo
    ELSE LET mid == (lo + hi) \div 2
         IN IF mid * mid <= w THEN ISqrt(w, mid, hi) ELSE ISqrt(w, lo, mid)

\* a power of two whose square exceeds w
RECURSIVE SqrtUpper(_, _)
SqrtUpper(w, h) == IF h * h > w THEN h ELSE SqrtUpper(w, 2 * h)

\* std::sqrt, correctly rounded as IEEE-754 requires.  The root of a
\* magnitude of m units is sqrt(m * One) units.
FSqrt(x) ==
    IF IsNaN(x) THEN NaN
    ELSE IF IsZero(x) THEN x
    ELSE IF x.sgn = 1 THEN NaN
    ELSE IF IsInf(x) THEN x
    ELSE LET w == x.mag * One
             r == ISqrt(w, 0, SqrtUpper(w, 1))
             sp == Spacing(r, 1, 1)
             n == r \div sp
             odd2 == (2 * n + 1) * sp
             up == \/ odd2 * odd2 < 4 * w
                   \/ odd2 * odd2 = 4 * w /\ n % 2 = 1
         IN Fin(0, (IF up THEN n + 1 ELSE n) * sp)

\* pi, between 333/106 and 355/113; cNumPi is the nearest value to it
cNumPi == Round(0, 355 * One, 113)
HalfPi == Round(0, 355 * One, 226)
QuarterPi == Round(0, 355 * One, 452)
ThreeQuarterPi == Round(0, 3 * 355 * One, 452)

WithSign(s, x) == [x EXCEPT !.sgn = s]
FiniteBetween(lo, hi) ==
    {Fin(0, m) : m \in {k \in Mags : lo.mag <= k /\ k <= hi.mag}}

\* std::atan2(y, x): the set of values libm may return.  The special cases
\* are exact (C Annex F.10.1.4); elsewhere the result is any value between
\* the roundings of a lower and an upper bound of the angle:
\*   atan(t) in [3t/4, t] for 0 < t <= 1, and atan(t) = pi/2 - atan(1/t).
Atan2(y, x) ==
    IF IsNaN(y) \/ IsNaN(x) THEN {NaN}
    ELSE IF IsZero(y)
         THEN {IF x.sgn = 0 THEN y ELSE WithSign(y.sgn, cNumPi)}
    ELSE IF IsZero(x) THEN {WithSign(y.sgn, HalfPi)}
    ELSE IF IsInf(y)
         THEN {WithSign(y.sgn, IF ~IsInf(x) THEN HalfPi
                               ELSE IF x.sgn = 0 THEN QuarterPi
                               ELSE ThreeQuarterPi)}
    ELSE IF IsInf(x)
         THEN {IF x.sgn = 0 THEN Fin(y.sgn, 0) ELSE WithSign(y.sgn, cNumPi)}
    ELSE IF x.sgn = 1
         THEN {WithSign(y.sgn, f) : f \in FiniteBetween(HalfPi, cNumPi)}
    ELSE IF y.mag <= x.mag
         THEN {WithSign(y.sgn, f) :
                 f \in FiniteBetween(Round(0, 3 * y.mag * One, 4 * x.mag),
                                     Round(0, y.mag * One, x.mag))}
    ELSE {WithSign(y.sgn, f) :
            f \in FiniteBetween(
                Round(0, (333 * y.mag - 212 * x.mag) * One, 212 * y.mag),
                Round(0, (4 * 355 * y.mag - 3 * 226 * x.mag) * One,
                      4 * 226 * y.mag))}

(***************************************************************************)
(* PointData<N, T>: mData is a sequence of N element values; component i   *)
(* of the code is mData[i + 1] here.                                       *)
(***************************************************************************)
Dims == 1..MaxDim
PointsOver(vals, n) == [1..n -> vals]

(***************************************************************************)
(* PointMathBasic: the in-place operations.  Each loop runs as the code's  *)
(* does, index by index from 0, writing the left operand's storage.        *)
(***************************************************************************)
RECURSIVE addEqLoop(_, _, _)
addEqLoop(l, r, i) ==
    IF i < Len(l)
    THEN addEqLoop([l EXCEPT ![i + 1] = FAdd(l[i + 1], r[i + 1])], r, i + 1)
    ELSE l

\* a loop that starts at index 1
addEq_SkipFirst(l, r) == addEqLoop(l, r, 1)

addEq(l, r) == addEqLoop(l, r, 0)

RECURSIVE subEqLoop(_, _, _)
subEqLoop(l, r, i) ==
    IF i < Len(l)
    THEN subEqLoop([l EXCEPT ![i + 1] = FSub(l[i + 1], r[i + 1])], r, i + 1)
    ELSE l

\* += where -= was meant
subEq_Plus(l, r) == addEqLoop(l, r, 0)

subEq(l, r) == subEqLoop(l, r, 0)

RECURSIVE mulEqLoop(_, _, _)
mulEqLoop(l, k, i) ==
    IF i < Len(l)
    THEN mulEqLoop([l EXCEPT ![i + 1] = FMul(l[i + 1], k)], k, i + 1)
    ELSE l

mulEq(l, k) == mulEqLoop(l, k, 0)

RECURSIVE divEqLoop(_, _, _)
divEqLoop(l, k, i) ==
    IF i < Len(l)
    THEN divEqLoop([l EXCEPT ![i + 1] = FDiv(l[i + 1], k)], k, i + 1)
    ELSE l

\* the reciprocal shortcut taken from dimension 3 on
divEq_Threshold3(l, k) ==
    IF Len(l) >= 3
    THEN mulEq(l, FDiv(Fin(0, One), k))
    ELSE divEqLoop(l, k, 0)

\* the reciprocal shortcut taken in every dimension
divEq_AlwaysReciprocal(l, k) == mulEq(l, FDiv(Fin(0, One), k))

divEq(l, k) ==
    IF Len(l) >= 2
    THEN mulEq(l, FDiv(Fin(0, One), k))
    ELSE divEqLoop(l, k, 0)

RECURSIVE componentMulEqLoop(_, _, _)
componentMulEqLoop(l, r, i) ==
    IF i < Len(l)
    THEN componentMulEqLoop([l EXCEPT ![i + 1] = FMul(l[i + 1], r[i + 1])],
                            r, i + 1)
    ELSE l

componentMulEq(l, r) == componentMulEqLoop(l, r, 0)

RECURSIVE componentDivEqLoop(_, _, _)
componentDivEqLoop(l, r, i) ==
    IF i < Len(l)
    THEN componentDivEqLoop([l EXCEPT ![i + 1] = FDiv(l[i + 1], r[i + 1])],
                            r, i + 1)
    ELSE l

componentDivEq(l, r) == componentDivEqLoop(l, r, 0)

(***************************************************************************)
(* The state: a templated call site.  dim is the template parameter N,     *)
(* left and right the two PointData operands, scalar the T operand.        *)
(* orig, prev and hist record what the in-place operations did to left:    *)
(* its value before the first and before the last one, and their names.    *)
(* call, operands, tag, unit, result and used describe the last            *)
(* value-returning call: its name, which points it was given, its norm tag *)
(* and cAssumeUnitT arguments, what it returned and which library routines *)
(* it invoked.                                                             *)
(* values, ctor, index, thrown and got belong to the PointData operations. *)
(* out is the point (or coordinate pair) returned by value by the last     *)
(* call; instArg and instOk are the last template argument given to        *)
(* PNormCt and whether the instantiation compiled; rotation is the stored  *)
(* sine and cosine of a Fixed2dRotation; iter and seen are an iterator     *)
(* over left and the components it has visited.                            *)
(***************************************************************************)
VARIABLES dim, left, right, scalar, orig, prev, hist,
          call, operands, tag, unit, result, used,
          values, ctor, index, thrown, got,
          out, instArg, instOk, rotation, iter, seen, store,
          points, start, prog, frame, acc, rets,
          request, pending, cFactorial, wrapped, verdict,
          width, fn, arg, nVal, dVal, resultVec, resultBack, at,
          argc, argv, gCmdArgs, selectedTests, numRun, numSuccess, numFailed,
          gInfoStream, sTestMessages, exitCode, stage, ran

vars == <<dim, left, right, scalar, orig, prev, hist,
          call, operands, tag, unit, result, used,
          values, ctor, index, thrown, got,
          out, instArg, instOk, rotation, iter, seen, store,
          points, start, prog, frame, acc, rets,
          request, pending, cFactorial, wrapped, verdict,
          width, fn, arg, nVal, dVal, resultVec, resultBack, at,
          argc, argv, gCmdArgs, selectedTests, numRun, numSuccess, numFailed,
          gInfoStream, sTestMessages, exitCode, stage, ran>>

otherVars == <<out, instArg, instOk, rotation, iter, seen, store>>

arithVars == <<orig, prev, hist>>
callVars == <<call, operands, tag, unit, result, used>>
dataVars == <<values, ctor, index, thrown, got>>
threadVars == <<points, start, prog, frame, acc, rets>>

\* the state of the point library, and the state of everything else
pointVars == <<dim, left, right, scalar, arithVars, callVars, dataVars,
               otherVars>>
factVars == <<request, pending, cFactorial, wrapped, verdict>>
intVars == <<width, fn, arg, nVal, dVal, resultVec, resultBack, at>>
runVars == <<argc, argv, gCmdArgs, selectedTests, numRun, numSuccess,
            numFailed, gInfoStream, sTestMessages, exitCode, stage, ran>>
extVars == <<threadVars, factVars, intVars, runVars>>
exceptThreads == <<pointVars, factVars, intVars, runVars>>
exceptFact == <<pointVars, threadVars, intVars, runVars>>
exceptInt == <<pointVars, threadVars, factVars, runVars>>
exceptRun == <<pointVars, threadVars, factVars, intVars>>

(***************************************************************************)
(* Input values.  V8(k) is k/8; the sets hold the landmarks of the format  *)
(* (zeros of both signs, the smallest subnormal, values whose products and *)
(* quotients round, the largest finite value, infinity, NaN).              *)
(***************************************************************************)
V8(k) == Fin(0, k * (One \div 8))
PZero == Fin(0, 0)
NZero == Fin(1, 0)
MinSub == Fin(0, 1)
MaxFinite == Fin(0, MaxFin)
FOne == Fin(0, One)

RichVals == {PZero, NZero, MinSub, V8(6), FNeg(V8(7)), FOne, FNeg(V8(16)),
             V8(24), MaxFinite, Inf(0), NaN, NegNaN}
MidVals == {V8(6), FNeg(V8(7)), V8(24)}
FewVals == {FOne, FNeg(V8(16))}
Scalars == {PZero, MinSub, FNeg(V8(7)), FOne, V8(24)}

CompVals(n) == IF n = 1 THEN RichVals ELSE IF n = 2 THEN MidVals ELSE FewVals

\* addEq(PointData<3,float>(1,2,3), PointData<3,float>(4,5,6))
ManualLeft == <<V8(8), V8(16), V8(24)>>
ManualRight == <<V8(32), V8(40), V8(48)>>

OperandPairs(n) ==
    (PointsOver(CompVals(n), n) \X PointsOver(CompVals(n), n))
        \cup (IF n = 3 THEN {<<ManualLeft, ManualRight>>} ELSE {})

NoCall == "none"

NoTag == [kind |-> "none", ptype |-> "none", p |-> 0]

IdleCall ==
    /\ call = NoCall
    /\ operands = <<>>
    /\ tag = NoTag
    /\ unit = FALSE
    /\ result = PZero
    /\ used = {}

IdleData ==
    /\ values = <<>>
    /\ ctor = "none"
    /\ index = 0
    /\ thrown = FALSE
    /\ got = PZero

IdleArith ==
    /\ orig = left
    /\ prev = left
    /\ hist = <<>>

NoArg == [type |-> "none", num |-> 0, den |-> 1]
NoRotation == [sin |-> PZero, cos |-> PZero]
NoIter == [kind |-> "none", pos |-> 0]
NoStore == [p |-> 0, q |-> 0]

IdleOther ==
    /\ out = <<>>
    /\ instArg = NoArg
    /\ instOk = "none"
    /\ rotation = NoRotation
    /\ iter = NoIter
    /\ seen = <<>>
    /\ store = NoStore

IdleThreads ==
    /\ points = <<>>
    /\ start = <<>>
    /\ prog = <<>>
    /\ frame = <<>>
    /\ acc = <<>>
    /\ rets = <<>>

IdleFact ==
    /\ request = 0
    /\ pending = <<>>
    /\ cFactorial = <<>>
    /\ wrapped = FALSE
    /\ verdict = "none"

IdleInt ==
    /\ width = 0
    /\ fn = "none"
    /\ arg = 0
    /\ nVal = 0
    /\ dVal = 0
    /\ resultVec = <<>>
    /\ resultBack = <<>>
    /\ at = "none"

\* CmdArgs as default-constructed
NewCmdArgs ==
    [mProgramName |-> <<"test-runner">>, mPaths |-> <<>>,
     mFailureMessage |-> <<>>, mEmpty |-> FALSE, mHelp |-> FALSE]

IdleRun ==
    /\ argc = 0
    /\ argv = <<>>
    /\ gCmdArgs = NewCmdArgs
    /\ selectedTests = <<>>
    /\ numRun = 0
    /\ numSuccess = 0
    /\ numFailed = 0
    /\ gInfoStream = <<>>
    /\ sTestMessages = <<>>
    /\ exitCode = <<>>
    /\ stage = "none"
    /\ ran = <<>>

IdleExt ==
    /\ IdleThreads
    /\ IdleFact
    /\ IdleInt
    /\ IdleRun

(***************************************************************************)
(* Specification of the in-place arithmetic: operands are chosen, then up  *)
(* to MaxOps in-place operations are applied to left.                      *)
(***************************************************************************)
InitArith ==
    /\ dim \in Dims
    /\ \E pr \in OperandPairs(dim) : left = pr[1] /\ right = pr[2]
    /\ scalar \in Scalars
    /\ IdleArith
    /\ IdleCall
    /\ IdleExt
    /\ IdleData
    /\ IdleOther

InPlace(name, newLeft) ==
    /\ Len(hist) < MaxOps
    /\ left' = newLeft
    /\ prev' = left
    /\ hist' = Append(hist, name)
    /\ UNCHANGED <<extVars, dim, right, scalar, orig>>
    /\ UNCHANGED callVars
    /\ UNCHANGED dataVars
    /\ UNCHANGED otherVars

AddEq == InPlace("addEq", addEq(left, right))
SubEq == InPlace("subEq", subEq(left, right))
MulEq == InPlace("mulEq", mulEq(left, scalar))
DivEq == InPlace("divEq", divEq(left, scalar))
ComponentMulEq == InPlace("componentMulEq", componentMulEq(left, right))
ComponentDivEq == InPlace("componentDivEq", componentDivEq(left, right))

NextArith ==
    \/ AddEq
    \/ SubEq
    \/ MulEq
    \/ DivEq
    \/ ComponentMulEq
    \/ ComponentDivEq

SpecArith == InitArith /\ [][NextArith]_vars

(***************************************************************************)
(* Claims about the in-place arithmetic (checked under SpecArith).         *)
(***************************************************************************)
LastOp == hist[Len(hist)]
Applied(name) == hist # <<>> /\ LastOp = name
AllFinite(p) == \A i \in 1..Len(p) : IsFin(p[i])
\* the normal range: finite, and zero or at least the smallest normal value
IsNormal(x) == IsFin(x) /\ x.mag >= Pow2(Prec - 1)
IsNormalOrZero(x) == IsZero(x) \/ IsNormal(x)

\* C1: addEq, subEq, componentMulEq, componentDivEq (point right operand)
\* and mulEq (scalar right operand) leave left[i] equal to exactly
\* left_old[i] op right[i] (resp. left_old[i] * s) for every index i of the
\* N components: the result of the plain per-component loop.
C1_PerComponent ==
    hist # <<>> =>
        /\ Len(left) = dim
        /\ \A i \in 1..dim :
            /\ LastOp = "addEq" => left[i] = FAdd(prev[i], right[i])
            /\ LastOp = "subEq" => left[i] = FSub(prev[i], right[i])
            /\ LastOp = "mulEq" => left[i] = FMul(prev[i], scalar)
            /\ LastOp = "componentMulEq" => left[i] = FMul(prev[i], right[i])
            /\ LastOp = "componentDivEq" => left[i] = FDiv(prev[i], right[i])

\* addEq((1,2,3),(4,5,6)) has left the left operand at (5,7,9)
C1_Witness ==
    /\ hist = <<"addEq">>
    /\ orig = ManualLeft
    /\ right = ManualRight
    /\ left = <<V8(40), V8(56), V8(72)>>

\* C2 as stated: for finite a and b whose sums do not overflow, addEq(a, b)
\* followed by subEq(a, b) returns a to exactly its original components.
C2_Original ==
    (/\ hist = <<"addEq", "subEq">>
     /\ AllFinite(orig) /\ AllFinite(right)
     /\ AllFinite(prev) /\ AllFinite(left))
        => \A i \in 1..dim : FEq(left[i], orig[i])

\* the sum x + y was computed into sum without rounding or overflow
ExactSum(x, y, sum) ==
    /\ IsFin(x) /\ IsFin(y) /\ IsFin(sum)
    /\ SVal(sum) = SVal(x) + SVal(y)

\* C2, amended: if every component sum a[i] + b[i] is exactly representable
\* (addEq rounds nothing), addEq(a, b) followed by subEq(a, b) returns a to
\* its original component values.
C2_ExactRoundTrip ==
    (/\ hist = <<"addEq", "subEq">>
     /\ \A i \in 1..dim : ExactSum(orig[i], right[i], prev[i]))
        => \A i \in 1..dim : FEq(left[i], orig[i])

C2_Witness ==
    /\ hist = <<"addEq", "subEq">>
    /\ dim >= 2
    /\ \A i \in 1..dim : ExactSum(orig[i], right[i], prev[i])
    /\ \A i \in 1..dim : ~FEq(prev[i], orig[i])
    /\ left = orig

\* C6: divEq(left, r) computes, for N >= 2, left[i] := left_old[i] * (1/r)
\* with the reciprocal evaluated once, and for N = 1, left[0] :=
\* left_old[0] / r by direct division; the threshold is N >= 2 and no other.
C6_DivEqThreshold ==
    Applied("divEq") =>
        /\ Len(left) = dim
        /\ dim >= 2 =>
            \A i \in 1..dim : left[i] = FMul(prev[i], FDiv(FOne, scalar))
        /\ dim = 1 => left[1] = FDiv(prev[1], scalar)

\* a dimension-2 divEq whose result differs from direct division
C6_Witness ==
    /\ Applied("divEq")
    /\ dim = 2
    /\ AllFinite(left)
    /\ \E i \in 1..dim : ~FEq(left[i], FDiv(prev[i], scalar))

\* |x - y| <= 2 * epsilon * |y|, epsilon = 2^(1 - Prec) the machine epsilon
WithinTolerance(x, y) ==
    /\ IsFin(x) /\ IsFin(y)
    /\ Abs(SVal(x) - SVal(y)) * Pow2(Prec) <= 4 * y.mag

\* the product x * k was computed into prod without rounding or overflow
ExactProduct(x, k, prod) ==
    /\ IsFin(x) /\ IsFin(k) /\ IsFin(prod)
    /\ prod.mag * One = x.mag * k.mag

\* C7 as stated, read in its favour (nothing overflows, nothing leaves the
\* normal range): mulEq(a, s) followed by divEq(a, s) is within a small
\* relative tolerance of a when N >= 2 and exactly a when N = 1.
C7_Original ==
    (/\ hist = <<"mulEq", "divEq">>
     /\ IsNormal(scalar)
     /\ \A i \in 1..dim :
            IsNormal(orig[i]) /\ IsNormal(prev[i]) /\ IsNormal(left[i]))
        => /\ dim >= 2 => \A i \in 1..dim : WithinTolerance(left[i], orig[i])
           /\ dim = 1 => FEq(left[1], orig[1])

\* C7, amended: for a nonzero finite scalar s, mulEq(a, s) followed by
\* divEq(a, s) is exactly a when N = 1 and the product a[0] * s is exactly
\* representable; and in every dimension it is within two machine epsilons
\* (relative) of a when each a[i] is zero or normal and a[i] * s, 1/s and
\* the final result neither overflow nor leave the normal range.
C7_RoundTrip ==
    (hist = <<"mulEq", "divEq">> /\ IsFin(scalar) /\ ~IsZero(scalar)) =>
        /\ (dim = 1 /\ ExactProduct(orig[1], scalar, prev[1]))
               => FEq(left[1], orig[1])
        /\ (/\ IsNormal(FDiv(FOne, scalar))
            /\ \A i \in 1..dim :
                /\ IsNormalOrZero(orig[i])
                /\ IsNormalOrZero(prev[i])
                /\ IsFin(left[i]))
               => \A i \in 1..dim : WithinTolerance(left[i], orig[i])

\* a dimension-2 round trip in the normal range that is close, not exact
C7_Witness ==
    /\ hist = <<"mulEq", "divEq">>
    /\ dim = 2
    /\ IsNormal(scalar) /\ IsNormal(FDiv(FOne, scalar))
    /\ \A i \in 1..dim :
        /\ IsNormal(orig[i]) /\ IsNormal(prev[i])
        /\ WithinTolerance(left[i], orig[i])
    /\ \E i \in 1..dim : ~FEq(left[i], orig[i])

(***************************************************************************)
(* PointData: construction and checked access.                             *)
(*                                                                         *)
(* A constructor argument has type InNumberT, convertible to the element   *)
(* type.  It is modelled as a value of a wider type whose magnitude is     *)
(* counted in half units, so that static_cast<NumberT> has to round.       *)
(***************************************************************************)
Wide(s, halves) == [cls |-> "fin", sgn |-> s, mag |-> halves]
\* a value of the element type, seen as an InNumberT
Widen(x) == [x EXCEPT !.mag = 2 * x.mag]
\* whether an InNumberT value is a value of the element type
IsElementValue(w) ==
    w.cls # "fin" \/ (w.mag % 2 = 0 /\ (w.mag \div 2) \in Mags)

\* static_cast<NumberT>(value)
Cast(w) == IF w.cls = "fin" THEN Round(w.sgn, w.mag, 2) ELSE w

\* PointData::zero(): a default-constructed (uninitialized) result whose
\* components are then set to 0.0 one by one
RECURSIVE zeroLoop(_, _)
zeroLoop(res, i) ==
    IF i < Len(res)
    THEN zeroLoop([res EXCEPT ![i + 1] = Cast(Widen(PZero))], i + 1)
    ELSE res

\* a loop that starts at index 1
zero_SkipFirst(uninit) == zeroLoop(uninit, 1)

zero(uninit) == zeroLoop(uninit, 0)

\* PointData(InNumberTs &&...values): mData{static_cast<NumberT>(values)...}
ctorArgs(vs) == [i \in 1..Len(vs) |-> Cast(vs[i])]

\* the three copying constructors: mData[i] = static_cast<NumberT>(data[i])
RECURSIVE ctorArrayLoop(_, _, _)
ctorArrayLoop(m, data, i) ==
    IF i < Len(m)
    THEN ctorArrayLoop([m EXCEPT ![i + 1] = Cast(data[i + 1])], data, i + 1)
    ELSE m

ctorArray(storage, data) == ctorArrayLoop(storage, data, 0)

RECURSIVE ctorSpanLoop(_, _, _)
ctorSpanLoop(m, data, i) ==
    IF i < Len(m)
    THEN ctorSpanLoop([m EXCEPT ![i + 1] = Cast(data[i + 1])], data, i + 1)
    ELSE m

\* a span read back to front
ctorSpan_Reversed(storage, data) ==
    [i \in 1..Len(storage) |-> Cast(data[Len(storage) + 1 - i])]

ctorSpan(storage, data) == ctorSpanLoop(storage, data, 0)

RECURSIVE ctorPointerLoop(_, _, _)
ctorPointerLoop(m, data, i) ==
    IF i < Len(m)
    THEN ctorPointerLoop([m EXCEPT ![i + 1] = Cast(data[i + 1])], data, i + 1)
    ELSE m

ctorPointer(storage, data) == ctorPointerLoop(storage, data, 0)

\* conversion of an int argument to std::size_t
SizeT(i) == i % Pow2(SizeBits)

\* a range check that lets the index N through
atThrows_OffByOne(n, u) == u > n

\* std::array::at: out of range when the index is not below N
atThrows(n, u) == u >= n

\* mData[u]: the component; outside the storage the read is undefined
\* behaviour and may yield anything
elem(m, u) == IF u < Len(m) THEN {m[u + 1]} ELSE Floats

(***************************************************************************)
(* Specification of PointData: raw storage holding anything is constructed *)
(* once, then read and written through at().                               *)
(***************************************************************************)
GarbageVals == {NaN, FNeg(MaxFinite)}
Garbage(n) == {[i \in 1..n |-> g] : g \in GarbageVals}
WideVals == {Widen(FOne), Widen(FNeg(V8(20))), Wide(0, 2 * One + 6)}
IndexArgs(n) == {0 - 1, 0, n - 1, n}
Written == V8(12)

InitData ==
    /\ dim \in Dims
    /\ left \in Garbage(dim)
    /\ values \in PointsOver(WideVals, dim)
    /\ ctor = "none"
    /\ right = left
    /\ scalar = PZero
    /\ IdleArith
    /\ IdleCall
    /\ IdleExt
    /\ index = 0
    /\ thrown = FALSE
    /\ got = PZero
    /\ IdleOther

Construct(name, newLeft) ==
    /\ ctor = "none"
    /\ ctor' = name
    /\ left' = newLeft
    /\ prev' = left
    /\ UNCHANGED <<extVars,
                   dim, right, scalar, orig, hist, values, index, thrown, got>>
    /\ UNCHANGED callVars
    /\ UNCHANGED otherVars

CtorDefault == Construct("default", left)
Zero == \E uninit \in Garbage(dim) : Construct("zero", zero(uninit))
CtorArgs == Construct("args", ctorArgs(values))
CtorArray == Construct("array", ctorArray(left, values))
CtorSpan == Construct("span", ctorSpan(left, values))
CtorPointer == Construct("pointer", ctorPointer(left, values))

\* at(i) read: the reference returned is read
At ==
    /\ ctor # "none"
    /\ \E i \in IndexArgs(dim) :
        /\ index' = i
        /\ thrown' = atThrows(dim, SizeT(i))
        /\ IF thrown'
           THEN got' = got
           ELSE got' \in elem(left, SizeT(i))
    /\ call' = "at"
    /\ prev' = left
    /\ UNCHANGED <<extVars,
                   dim, left, right, scalar, orig, hist, operands, tag, unit,
                   result, used, values, ctor>>
    /\ UNCHANGED otherVars

\* at(i) = v: the reference returned is assigned to
AtAssign ==
    /\ ctor # "none"
    /\ Len(hist) < MaxOps
    /\ \E i \in IndexArgs(dim) :
        /\ index' = i
        /\ thrown' = atThrows(dim, SizeT(i))
        /\ IF thrown'
           THEN left' = left
           ELSE left' = [k \in 1..Len(left) |->
                            IF k = SizeT(i) + 1 THEN Written ELSE left[k]]
    /\ got' = Written
    /\ call' = "atAssign"
    /\ prev' = left
    /\ hist' = Append(hist, "atAssign")
    /\ UNCHANGED <<extVars,
                   dim, right, scalar, orig, operands, tag, unit, result,
                   used, values, ctor>>
    /\ UNCHANGED otherVars

NextData ==
    \/ CtorDefault
    \/ Zero
    \/ CtorArgs
    \/ CtorArray
    \/ CtorSpan
    \/ CtorPointer
    \/ At
    \/ AtAssign

SpecData == InitData /\ [][NextData]_vars

(***************************************************************************)
(* Claims about PointData (checked under SpecData).                        *)
(***************************************************************************)
\* C3: for a point of dimension N, at(i) returns component i for every i in
\* [0, N) and raises the out-of-range error for every other argument (i >= N,
\* or negative and converted to an unsigned index); a call that raises leaves
\* every component of the point unchanged.
C3_CheckedAccess ==
    call \in {"at", "atAssign"} =>
        /\ index \in 0..(dim - 1) => (~thrown /\ got = left[index + 1])
        /\ index \notin 0..(dim - 1) => thrown
        /\ thrown => left = prev
        /\ call = "at" => left = prev

\* PointData<3, T>(...).at(-1) raised and left the point as it was
C3_Witness ==
    /\ call = "at"
    /\ ctor = "args"
    /\ dim = 3
    /\ index = 0 - 1
    /\ thrown
    /\ left = ctorArgs(values)

\* C4: PointData::zero() returns a point in which every one of the N
\* components equals 0, whatever the storage held before.
C4_ZeroAllComponents ==
    (ctor = "zero" /\ hist = <<>>) =>
        /\ Len(left) = dim
        /\ \A i \in 1..dim : left[i] = PZero

\* zero() has overwritten storage of dimension 3 that held NaN
C4_Witness ==
    /\ ctor = "zero"
    /\ hist = <<>>
    /\ dim = 3
    /\ \A i \in 1..dim : IsNaN(orig[i]) /\ IsZero(left[i])

\* C5: the points constructed from a sequence v of N values as N scalar
\* arguments, as an N-array, as an N-span and as a raw pointer to N elements
\* are component-wise identical: component i is static_cast<NumberT>(v[i]),
\* which is v[i] itself when v[i] is a value of the element type.
C5_ConstructorsAgree ==
    (ctor \in {"args", "array", "span", "pointer"} /\ hist = <<>>) =>
        /\ Len(left) = dim
        /\ left = ctorArgs(values)
        /\ left = ctorArray(prev, values)
        /\ left = ctorSpan(prev, values)
        /\ left = ctorPointer(prev, values)
        /\ \A i \in 1..dim :
            /\ left[i] = Cast(values[i])
            /\ IsElementValue(values[i]) => Widen(left[i]) = values[i]

\* a span of three element-type values, not all alike, was copied in order
C5_Witness ==
    /\ ctor = "span"
    /\ hist = <<>>
    /\ dim = 3
    /\ \A i \in 1..dim : IsElementValue(values[i])
    /\ values[1] # values[3]
    /\ \A i \in 1..dim : Widen(left[i]) = values[i]

(***************************************************************************)
(* PointMathBasic: the value-returning operations.  Each returns a record  *)
(* [value, calls]: the value and the library routines that computed it.    *)
(***************************************************************************)
\* result += left[i] * right[i], two roundings per term
RECURSIVE dotProductLoop_NoFma(_, _, _, _)
dotProductLoop_NoFma(l, r, i, res) ==
    IF i < Len(l)
    THEN dotProductLoop_NoFma(l, r, i + 1, FAdd(res, FMul(l[i + 1], r[i + 1])))
    ELSE res

dotProduct_NoFma(l, r) == dotProductLoop_NoFma(l, r, 0, PZero)

RECURSIVE dotProductLoop(_, _, _, _)
dotProductLoop(l, r, i, res) ==
    IF i < Len(l)
    THEN dotProductLoop(l, r, i + 1, FFma(l[i + 1], r[i + 1], res))
    ELSE res

dotProduct(l, r) == dotProductLoop(l, r, 0, PZero)

\* integer powers, and the decomposition m = OddPart(m) * 2^TwoExp(m)
RECURSIVE IPow(_, _)
IPow(b, n) == IF n <= 0 THEN 1 ELSE b * IPow(b, n - 1)

RECURSIVE OddPart(_)
OddPart(m) == IF m % 2 = 1 THEN m ELSE OddPart(m \div 2)

RECURSIVE TwoExp(_)
TwoExp(m) == IF m % 2 = 1 THEN 0 ELSE 1 + TwoExp(m \div 2)

\* std::pow(x, T{P}) for an integer exponent P >= 1, correctly rounded:
\* x^P = odd^P * 2^e units with e = t * P - (P - 1) * log2(One)
FPowInt(x, P) ==
    LET s == IF P % 2 = 1 THEN x.sgn ELSE 0
    IN IF IsNaN(x) THEN NaN
       ELSE IF IsInf(x) THEN Inf(s)
       ELSE IF IsZero(x) THEN Fin(s, 0)
       ELSE LET num == IPow(OddPart(x.mag), P)
                e == TwoExp(x.mag) * P - (P - 1) * (Prec - 1 - EMin)
            IN IF 0 - e > Prec * P THEN Fin(s, 0)
               ELSE IF 0 - e = Prec * P
                    THEN Fin(s, IF 2 * num > Pow2(Prec * P) THEN 1 ELSE 0)
               ELSE IF e < 0 THEN Round(s, num, Pow2(0 - e))
               ELSE IF e > Prec + EMax - EMin THEN Inf(s)
               ELSE IF num > (2 * MaxFin) \div Pow2(e) THEN Inf(s)
               ELSE Round(s, num * Pow2(e), 1)

\* std::max(a, b): (a < b) ? b : a
FLess(x, y) ==
    /\ ~IsNaN(x)
    /\ ~IsNaN(y)
    /\ ~(IsZero(x) /\ IsZero(y))
    /\ \/ x.sgn = 1 /\ y.sgn = 0
       \/ x.sgn = 0 /\ y.sgn = 0 /\ ~IsInf(x) /\ (IsInf(y) \/ x.mag < y.mag)
       \/ x.sgn = 1 /\ y.sgn = 1 /\ ~IsInf(y) /\ (IsInf(x) \/ y.mag < x.mag)

FMax(a, b) == IF FLess(a, b) THEN b ELSE a

\* the neighbours of a finite magnitude
SuccMag(m) == m + Spacing(m, 1, 1)
PredMag(m) == m - Spacing(m - 1, 1, 1)

\* the magnitude of f^q rounded, an infinite result counting as MaxFin + 1
PowMag(f, q) ==
    LET r == FPowInt(Fin(0, f), q)
    IN IF IsInf(r) THEN MaxFin + 1 ELSE r.mag

\* f is certainly below (above) the q-th root of s: a neighbour of f on the
\* side of the root still has its q-th power on the same side of s
BelowRoot(f, s, q) == f < MaxFin /\ PowMag(SuccMag(f), q) < s
AboveRoot(f, s, q) == f > 0 /\ PowMag(PredMag(f), q) > s

\* g is neither certainly below nor certainly above the root of s, whose
\* order is known to lie between qlo and qhi
NearRoot(g, s, qlo, qhi) ==
    /\ ~(BelowRoot(g, s, qlo) /\ BelowRoot(g, s, qhi))
    /\ ~(AboveRoot(g, s, qlo) /\ AboveRoot(g, s, qhi))

\* the values a root function may return for such a root of x
RootValues(x, qlo, qhi) ==
    IF IsNaN(x) THEN {NaN}
    ELSE IF IsZero(x) THEN {x}
    ELSE IF x.sgn = 1 THEN {NaN}
    ELSE IF IsInf(x) THEN {x}
    ELSE {Fin(0, f) : f \in {g \in Mags : NearRoot(g, x.mag, qlo, qhi)}}

\* std::cbrt
FCbrt(x) ==
    IF IsFin(x) /\ x.sgn = 1 /\ ~IsZero(x)
    THEN {FNeg(r) : r \in RootValues(FAbs(x), 3, 3)}
    ELSE IF IsInf(x) THEN {x}
    ELSE RootValues(x, 3, 3)

\* std::pow(x, y) for x >= 0 and an exponent 0 < y <= 1: y = 1 returns x;
\* otherwise 1/y lies between two consecutive integers, the root orders
FPowRoot(x, y) ==
    IF IsNaN(x) \/ IsNaN(y) THEN {NaN}
    ELSE IF FEq(y, Fin(0, One)) THEN {x}
    ELSE IF IsZero(x) THEN {Fin(0, 0)}
    ELSE RootValues(x, One \div y.mag, (One + y.mag - 1) \div y.mag)

\* T{P} for a small integer P
FromInt(P) == Round(SignOf(P), Abs(P) * One, 1)

\* pNormIntPowerSumCt<P>: the four loops chosen by P
RECURSIVE powerSumL1(_, _, _)
powerSumL1(pt, i, res) ==
    IF i < Len(pt) THEN powerSumL1(pt, i + 1, FAdd(res, FAbs(pt[i + 1])))
    ELSE res

RECURSIVE powerSumL2(_, _, _)
powerSumL2(pt, i, res) ==
    IF i < Len(pt)
    THEN powerSumL2(pt, i + 1, FFma(pt[i + 1], pt[i + 1], res))
    ELSE res

RECURSIVE powerSumEven(_, _, _, _)
powerSumEven(P, pt, i, res) ==
    IF i < Len(pt)
    THEN powerSumEven(P, pt, i + 1, FAdd(res, FPowInt(pt[i + 1], P)))
    ELSE res

RECURSIVE powerSumOdd(_, _, _, _)
powerSumOdd(P, pt, i, res) ==
    IF i < Len(pt)
    THEN powerSumOdd(P, pt, i + 1, FAdd(res, FPowInt(FAbs(pt[i + 1]), P)))
    ELSE res

\* result += point[i] * point[i] in the L2 branch, two roundings per term
pNormIntPowerSumCt_NoFma(P, pt) ==
    IF P = 1 THEN powerSumL1(pt, 0, PZero)
    ELSE IF P = 2 THEN dotProduct_NoFma(pt, pt)
    ELSE IF P % 2 = 0 THEN powerSumEven(P, pt, 0, PZero)
    ELSE powerSumOdd(P, pt, 0, PZero)

pNormIntPowerSumCt(P, pt) ==
    IF P = 1 THEN powerSumL1(pt, 0, PZero)
    ELSE IF P = 2 THEN powerSumL2(pt, 0, PZero)
    ELSE IF P % 2 = 0 THEN powerSumEven(P, pt, 0, PZero)
    ELSE powerSumOdd(P, pt, 0, PZero)

\* the library routines pNormIntPowerSumCt<P> invokes
powerSumCalls(P) ==
    IF P = 1 THEN {"abs"}
    ELSE IF P = 2 THEN {"fma"}
    ELSE IF P % 2 = 0 THEN {"pow"}
    ELSE {"abs", "pow"}

\* PNormCt<P> with a non-boolean integral P >= 1
PNormCtInt(P) == [kind |-> "PNormCt", ptype |-> "int", p |-> P]

\* normPowerSum(point, PNormCt<P>{}) for integral P
normPowerSum(pt, t) == pNormIntPowerSumCt(t.p, pt)

\* pNormIntCt<2>: the square root of the L2 power sum
pNormIntCt2(pt) == FSqrt(pNormIntPowerSumCt(2, pt))

\* the sign test replaced by the sign of the product
sameDirection1d_Product(x, y) == ~IsNegative(FMul(x, y))

\* the N == 1 test of angleBetween
sameDirection1d(x, y) == SignBit(x) = SignBit(y)

\* the general branch (N >= 2) of angleBetween, on copies of the operands
angleBetweenGeneral(assumeUnit, l, r) ==
    LET leftNorm == pNormIntCt2(l)
        rightNorm == pNormIntCt2(r)
        l2 == IF assumeUnit THEN l ELSE mulEq(l, rightNorm)
        r2 == IF assumeUnit THEN r ELSE mulEq(r, leftNorm)
        sub == subEq(l2, r2)
        add == addEq(l2, r2)
    IN {[value |-> FMul(V8(16), a), calls |-> {"fma", "sqrt", "atan2"}] :
           a \in Atan2(pNormIntCt2(sub), pNormIntCt2(add))}

\* angleBetween<cAssumeUnitT>(left, right): the set of possible outcomes
angleBetween(assumeUnit, l, r) ==
    IF Len(l) = 1
    THEN {[value |-> IF sameDirection1d(l[1], r[1]) THEN PZero ELSE cNumPi,
           calls |-> {"signbit"}]}
    ELSE angleBetweenGeneral(assumeUnit, l, r)

(***************************************************************************)
(* Specification of the value-returning operations: operands are chosen,   *)
(* then calls are made on them; no call changes a point.                   *)
(***************************************************************************)
\* the largest compile-time norm exponent instantiated
MaxPower == 4

\* points at the two ends of the range: all components the smallest
\* subnormal, all components the largest finite value
ExtremePairs(n) ==
    {<<[i \in 1..n |-> MinSub], [i \in 1..n |-> MinSub]>>,
     <<[i \in 1..n |-> MaxFinite], [i \in 1..n |-> FNeg(MaxFinite)]>>}

InitPure ==
    /\ dim \in Dims
    /\ \E pr \in OperandPairs(dim) \cup ExtremePairs(dim) :
          left = pr[1] /\ right = pr[2]
    /\ scalar = PZero
    /\ IdleArith
    /\ IdleCall
    /\ IdleExt
    /\ IdleData
    /\ IdleOther

\* the arguments of a call: the two points, or the negation of the first
negated(pt) == [i \in 1..Len(pt) |-> FNeg(pt[i])]

Operand(name) ==
    IF name = "left" THEN left
    ELSE IF name = "right" THEN right
    ELSE negated(left)

OperandNames == {"left", "right"}
AngleOperands == (OperandNames \X OperandNames) \cup {<<"left", "negLeft">>}

Returns(name, ops, t, u, outcome) ==
    /\ call = NoCall
    /\ call' = name
    /\ operands' = ops
    /\ tag' = t
    /\ unit' = u
    /\ result' = outcome.value
    /\ used' = outcome.calls
    /\ UNCHANGED <<extVars, dim, left, right, scalar>>
    /\ UNCHANGED arithVars
    /\ UNCHANGED dataVars
    /\ UNCHANGED otherVars

DotProduct ==
    /\ call = NoCall
    /\ \E x \in OperandNames, y \in OperandNames :
           Returns("dotProduct", <<x, y>>, NoTag, FALSE,
                   [value |-> dotProduct(Operand(x), Operand(y)),
                    calls |-> {"fma"}])

NormPowerSum ==
    /\ call = NoCall
    /\ \E x \in OperandNames, P \in 1..MaxPower :
           Returns("normPowerSum", <<x>>, PNormCtInt(P), FALSE,
                   [value |-> normPowerSum(Operand(x), PNormCtInt(P)),
                    calls |-> powerSumCalls(P)])

AngleBetween ==
    /\ call = NoCall
    /\ \E ops \in AngleOperands, u \in BOOLEAN :
           \E outcome \in angleBetween(u, Operand(ops[1]), Operand(ops[2])) :
               Returns("angleBetween", ops, NoTag, u, outcome)

NextPure ==
    \/ DotProduct
    \/ NormPowerSum
    \/ AngleBetween

SpecPure == InitPure /\ [][NextPure]_vars

(***************************************************************************)
(* Claims about the value-returning operations.                            *)
(***************************************************************************)
Called(name) == call = name
Arg(k) == Operand(operands[k])

\* the running sum after the first k terms: fma(a[k-1], b[k-1], previous sum)
RECURSIVE FmaSum(_, _, _)
FmaSum(a, b, k) ==
    IF k = 0 THEN PZero ELSE FFma(a[k], b[k], FmaSum(a, b, k - 1))

\* the exact sum of the first k products, in units of 1 / (One * One)
RECURSIVE ExactDot(_, _, _)
ExactDot(a, b, k) ==
    IF k = 0 THEN 0 ELSE ExactDot(a, b, k - 1) + SVal(a[k]) * SVal(b[k])

\* q / (One * One) is a value of the element type
Representable(q) ==
    /\ q % One = 0
    /\ Abs(q) \div One \in Mags

ExactInputs(a, b) ==
    /\ AllFinite(a)
    /\ AllFinite(b)
    /\ \A k \in 1..Len(a) :
          /\ Representable(SVal(a[k]) * SVal(b[k]))
          /\ Representable(ExactDot(a, b, k))

\* C8: dotProduct(a, b) is the index-ordered accumulation from 0 in which
\* each step is fma(a[i], b[i], running sum); when every product and every
\* partial sum is exactly representable the result is the exact sum of
\* products, and dotProduct(a, b) = dotProduct(b, a).
C8_DotProduct ==
    Called("dotProduct") =>
        LET a == Arg(1)
            b == Arg(2)
        IN /\ result = FmaSum(a, b, Len(a))
           /\ ExactInputs(a, b) =>
                 /\ IsFin(result)
                 /\ SVal(result) * One = ExactDot(a, b, Len(a))
                 /\ FEq(result, dotProduct(b, a))

C8_Witness ==
    /\ Called("dotProduct")
    /\ dim = 3
    /\ operands = <<"left", "right">>
    /\ left = <<FOne, FNeg(V8(16)), FOne>>
    /\ right = <<FNeg(V8(16)), FNeg(V8(16)), FOne>>
    /\ ExactInputs(left, right)
    /\ result = V8(24)

\* C9: for a finite point a, dotProduct(a, a) and the L2 power sum
\* normPowerSum(a, PNormCt<2>) are the same value, each being the
\* index-ordered fma accumulation of the squared components.
C9_DotSelfIsPowerSum ==
    /\ (Called("dotProduct") /\ operands[1] = operands[2] /\ AllFinite(Arg(1)))
          => /\ result = normPowerSum(Arg(1), PNormCtInt(2))
             /\ result = FmaSum(Arg(1), Arg(1), dim)
    /\ (Called("normPowerSum") /\ tag = PNormCtInt(2) /\ AllFinite(Arg(1)))
          => /\ result = dotProduct(Arg(1), Arg(1))
             /\ result = FmaSum(Arg(1), Arg(1), dim)

C9_Witness ==
    /\ Called("normPowerSum")
    /\ tag = PNormCtInt(2)
    /\ dim = 2
    /\ Arg(1) = <<V8(6), FNeg(V8(7))>>
    /\ result = dotProduct(Arg(1), Arg(1))
    /\ result # dotProduct_NoFma(Arg(1), Arg(1))

SameSign(x, y) == SignBit(x) = SignBit(y)
IsPositive(x) == ~IsNaN(x) /\ ~IsZero(x) /\ x.sgn = 0
NormOrTrig == {"fma", "abs", "pow", "sqrt", "cbrt", "atan2", "sin", "cos"}

\* C10: in dimension 1 angleBetween returns 0 when the two single
\* components have the same sign and pi when they have opposite signs,
\* whatever the assume-unit flag, and calls no norm or trigonometric routine.
\* For nonzero numbers the sign is that of the value; a zero or a NaN counts
\* by its sign bit.
C10_AngleBetween1d ==
    (Called("angleBetween") /\ dim = 1) =>
        LET x == Arg(1)[1]
            y == Arg(2)[1]
        IN /\ (IsPositive(x) /\ IsPositive(y)) => result = PZero
           /\ (IsNegative(x) /\ IsNegative(y)) => result = PZero
           /\ (IsPositive(x) /\ IsNegative(y)) => result = cNumPi
           /\ (IsNegative(x) /\ IsPositive(y)) => result = cNumPi
           /\ SameSign(x, y) => result = PZero
           /\ ~SameSign(x, y) => result = cNumPi
           /\ unit \in BOOLEAN
           /\ used \cap NormOrTrig = {}

C10_Witness ==
    /\ Called("angleBetween")
    /\ dim = 1
    /\ unit
    /\ operands = <<"left", "right">>
    /\ left = <<V8(24)>>
    /\ right = <<FNeg(V8(7))>>
    /\ result = cNumPi

\* some component is not a zero
IsNonzeroPoint(pt) == \E i \in 1..Len(pt) : ~IsZero(pt[i])

\* |x - y| <= eps * |y|, eps = 2^(1 - Prec); never true of a NaN or infinity
WithinEps(x, y) ==
    /\ IsFin(x)
    /\ Abs(SVal(x) - SVal(y)) * Pow2(Prec - 1) <= y.mag

\* |x| <= eps
WithinEpsOfZero(x) ==
    /\ IsFin(x)
    /\ x.mag * Pow2(Prec - 1) <= One

\* C11: for every nonzero (finite) point a of dimension N >= 2,
\* angleBetween<false>(a, a) is 0 within a tight absolute tolerance and
\* angleBetween<false>(a, -a) is pi within a tight relative tolerance.
C11_SelfAndOpposite ==
    (/\ Called("angleBetween")
     /\ dim >= 2
     /\ ~unit
     /\ AllFinite(Arg(1))
     /\ IsNonzeroPoint(Arg(1)))
        => /\ Arg(2) = Arg(1) => WithinEpsOfZero(result)
           /\ Arg(2) = negated(Arg(1)) => WithinEps(result, cNumPi)

\* the cross-scaled copies |b|*a and |a|*b of angleBetween<false>
CrossScaled(a, b) == mulEq(a, pNormIntCt2(b))

\* the cross-scaling neither overflows nor flushes the point to zero
ScalesInRange(a) ==
    /\ AllFinite(CrossScaled(a, a))
    /\ IsNonzeroPoint(CrossScaled(a, a))

\* what the code does guarantee: when the cross-scaled copy of a is finite
\* and nonzero, the two angles are exactly 0 and exactly cNumPi
C11_InRange ==
    (/\ Called("angleBetween")
     /\ dim >= 2
     /\ ~unit
     /\ ScalesInRange(Arg(1)))
        => /\ Arg(2) = Arg(1) => result = PZero
           /\ Arg(2) = negated(Arg(1)) => result = cNumPi

\* angleBetween<false>(a, a) on a finite point whose sum of squares
\* overflows: the result is NaN
C11_Witness ==
    /\ Called("angleBetween")
    /\ dim = 2
    /\ ~unit
    /\ operands = <<"left", "left">>
    /\ left = <<V8(24), V8(24)>>
    /\ IsNaN(result)

\* angleBetween<false>(a, -a) on a nonzero point whose squares underflow:
\* the result is 0, not pi
C11_WitnessUnderflow ==
    /\ Called("angleBetween")
    /\ dim = 2
    /\ ~unit
    /\ operands = <<"left", "negLeft">>
    /\ left = <<MinSub, MinSub>>
    /\ result = PZero

(***************************************************************************)
(* PointMathBasic: norms.  A norm call returns a set of outcomes           *)
(* [value, calls], one for each value the library routines may return.     *)
(***************************************************************************)
\* the norm tags: InfNorm, PNormCt<P> and PNormRt(P) with an integral or a
\* floating-point exponent
InfNorm == [kind |-> "InfNorm", ptype |-> "none", p |-> 0]
PNormCtFloat(P) == [kind |-> "PNormCt", ptype |-> "float", p |-> P]
PNormRtInt(P) == [kind |-> "PNormRt", ptype |-> "int", p |-> P]
PNormRtFloat(P) == [kind |-> "PNormRt", ptype |-> "float", p |-> P]

\* result = std::max(result, std::abs(point[i]))
RECURSIVE maxNormLoop(_, _, _)
maxNormLoop(pt, i, res) ==
    IF i < Len(pt) THEN maxNormLoop(pt, i + 1, FMax(res, FAbs(pt[i + 1])))
    ELSE res

maxNorm(pt) == maxNormLoop(pt, 0, PZero)

\* the power sums that have no special cases:
\* result += std::pow(std::abs(point[i]), power)
pNormIntPowerSumRt(pt, P) == powerSumOdd(P, pt, 0, PZero)
pNormFloatPowerSumCt(P, pt) == powerSumOdd(P, pt, 0, PZero)
pNormFloatPowerSumRt(pt, P) == powerSumOdd(P, pt, 0, PZero)

\* T{1.0} / T{P}
InvPower(P) == FDiv(FOne, FromInt(P))

\* std::pow(sum, 1/P)
rootByPow(sum, P, calls) ==
    {[value |-> r, calls |-> calls \cup {"pow"}] :
        r \in FPowRoot(sum, InvPower(P))}

\* pNormIntCt<P> without its special cases
pNormIntCt_Generic(P, pt) ==
    rootByPow(powerSumOdd(P, pt, 0, PZero), P, {"abs", "pow"})

pNormIntCt(P, pt) ==
    IF P = 1
    THEN {[value |-> pNormIntPowerSumCt(1, pt), calls |-> powerSumCalls(1)]}
    ELSE IF P = 2
    THEN {[value |-> FSqrt(pNormIntPowerSumCt(2, pt)),
           calls |-> powerSumCalls(2) \cup {"sqrt"}]}
    ELSE IF P = 3
    THEN {[value |-> r, calls |-> powerSumCalls(3) \cup {"cbrt"}] :
             r \in FCbrt(pNormIntPowerSumCt(3, pt))}
    ELSE rootByPow(pNormIntPowerSumCt(P, pt), P, powerSumCalls(P))

pNormIntRt(pt, P) == rootByPow(pNormIntPowerSumRt(pt, P), P, {"abs", "pow"})
pNormFloatCt(P, pt) ==
    rootByPow(pNormFloatPowerSumCt(P, pt), P, {"abs", "pow"})
pNormFloatRt(pt, P) ==
    rootByPow(pNormFloatPowerSumRt(pt, P), P, {"abs", "pow"})

\* norm(point, tag): the if-constexpr chain on the tag's type
norm(pt, t) ==
    IF t.kind = "InfNorm"
    THEN {[value |-> maxNorm(pt), calls |-> {"abs", "max"}]}
    ELSE IF t.kind = "PNormCt"
    THEN (IF t.ptype = "int" THEN pNormIntCt(t.p, pt)
          ELSE pNormFloatCt(t.p, pt))
    ELSE (IF t.ptype = "int" THEN pNormIntRt(pt, t.p)
          ELSE pNormFloatRt(pt, t.p))

(***************************************************************************)
(* PointNormTags: which template arguments PNormCt<P> accepts.  An         *)
(* argument is its type and its value num/den.                             *)
(***************************************************************************)
IntegralTypes ==
    {"bool", "char", "int", "unsigned", "long", "unsigned long", "long long",
     "unsigned long long"}
FloatingTypes == {"float", "double"}

\* std::is_integral_v, std::is_floating_point_v, and P >= decltype(P){1}
is_integral(a) == a.type \in IntegralTypes
is_floating_point(a) == a.type \in FloatingTypes
AtLeastOne(a) == a.num >= a.den

\* the requires-clause without the exclusion of bool
PNormCtAccepts_Bool(a) ==
    (is_integral(a) \/ is_floating_point(a)) /\ AtLeastOne(a)

\* the requires-clause of PNormCt
PNormCtAccepts(a) ==
    /\ \/ is_integral(a) /\ a.type # "bool"
       \/ is_floating_point(a)
    /\ AtLeastOne(a)

TArg(ty, n, d) == [type |-> ty, num |-> n, den |-> d]

\* the template arguments tried by the static assertions, and a character
TemplateArgs ==
    {TArg("int", 0, 1), TArg("unsigned", 0, 1), TArg("int", 0 - 1, 1),
     TArg("long", 0 - 2, 1), TArg("long long", 0 - 4, 1),
     TArg("double", 99, 100), TArg("double", 9, 10), TArg("float", 0, 1),
     TArg("double", 0 - 1, 1), TArg("float", 0 - 2, 1),
     TArg("bool", 0, 1), TArg("bool", 1, 1), TArg("Dummy", 0, 1),
     TArg("int", 1, 1), TArg("unsigned", 2, 1), TArg("long", 3, 1),
     TArg("unsigned long", 4, 1), TArg("long long", 5, 1),
     TArg("unsigned long long", 6, 1),
     TArg("double", 1, 1), TArg("float", 11, 10), TArg("double", 12, 10),
     TArg("double", 15, 10), TArg("double", 2, 1), TArg("float", 27, 10),
     TArg("char", 97, 1)}
        \cup {TArg("int", P, 1) : P \in 1..MaxPower}
        \cup {TArg("double", P, 1) : P \in 1..MaxPower}

(***************************************************************************)
(* Specification of the norms: a point is chosen, a norm tag is made (a    *)
(* PNormCt instantiated with some template argument, a PNormRt or the      *)
(* InfNorm) and norm is called with it.                                    *)
(***************************************************************************)
NormPoints(n) ==
    PointsOver(CompVals(n), n)
        \cup {[i \in 1..n |-> MinSub], [i \in 1..n |-> MaxFinite]}

\* the tags norm is instantiated with: exponents 1..MaxPower of either type
NormTags ==
    {InfNorm}
        \cup {PNormCtInt(P) : P \in 1..MaxPower}
        \cup {PNormCtFloat(P) : P \in 1..MaxPower}
        \cup {PNormRtInt(P) : P \in 1..MaxPower}
        \cup {PNormRtFloat(P) : P \in 1..MaxPower}

InitNorm ==
    /\ dim \in Dims
    /\ left \in NormPoints(dim)
    /\ right = left
    /\ scalar = PZero
    /\ IdleArith
    /\ IdleCall
    /\ IdleExt
    /\ IdleData
    /\ IdleOther

\* the tag type PNormCt<P> of an accepted argument; an exponent that is
\* not one of the instantiated ones is recorded as 0
PNormCtOf(a) ==
    [kind |-> "PNormCt",
     ptype |-> IF is_integral(a) THEN "int" ELSE "float",
     p |-> IF a.den = 1 /\ a.num <= MaxPower THEN a.num ELSE 0]

MakeTag(t) ==
    /\ tag = NoTag
    /\ instOk = "none"
    /\ tag' = t
    /\ UNCHANGED <<extVars,
                   dim, left, right, scalar, call, operands, unit, result,
                   used>>
    /\ UNCHANGED arithVars
    /\ UNCHANGED dataVars

\* PNormCt<P> is named: the requires-clause decides whether it compiles
InstantiatePNormCt ==
    \E a \in TemplateArgs :
        /\ MakeTag(IF PNormCtAccepts(a) THEN PNormCtOf(a) ELSE NoTag)
        /\ instArg' = a
        /\ instOk' = IF PNormCtAccepts(a) THEN "accepted" ELSE "rejected"
        /\ UNCHANGED <<out, rotation, iter, seen, store>>

\* PNormRt(p) is constructed
MakePNormRt ==
    \E t \in {PNormRtInt(P) : P \in 1..MaxPower}
               \cup {PNormRtFloat(P) : P \in 1..MaxPower} :
        MakeTag(t) /\ UNCHANGED otherVars

\* InfNorm{} is constructed
MakeInfNorm == MakeTag(InfNorm) /\ UNCHANGED otherVars

\* norm(point, tag) with the tag made
Norm ==
    /\ call = NoCall
    /\ tag \in NormTags
    /\ \E outcome \in norm(left, tag) :
          Returns("norm", <<"left">>, tag, FALSE, outcome)

NextNorm ==
    \/ InstantiatePNormCt
    \/ MakePNormRt
    \/ MakeInfNorm
    \/ Norm

SpecNorm == InitNorm /\ [][NextNorm]_vars

(***************************************************************************)
(* Claims about the norms and their tags.                                  *)
(***************************************************************************)
NoNaN(pt) == \A i \in 1..Len(pt) : ~IsNaN(pt[i])

\* v is one of the |x_i| and none of them is greater
IsMaxAbs(v, pt) ==
    /\ \E i \in 1..Len(pt) : v = FAbs(pt[i])
    /\ \A i \in 1..Len(pt) : ~FLess(v, FAbs(pt[i]))

\* the sum of |x_i|^p over the first k components, in index order
RECURSIVE SumPowers(_, _, _)
SumPowers(pt, pw, k) ==
    IF k = 0 THEN PZero
    ELSE FAdd(SumPowers(pt, pw, k - 1), FPowInt(FAbs(pt[k]), pw))

\* r is a value of s^(1/p) for a sum s >= 0: of the p-th root, or of the
\* power whose exponent is the rounded 1/p
IsPthRoot(r, s, pw) ==
    IF IsNaN(s) THEN IsNaN(r)
    ELSE IF IsZero(s) \/ IsInf(s) \/ pw = 1 THEN r = s
    ELSE /\ IsFin(r)
         /\ r.sgn = 0
         /\ LET y == InvPower(pw).mag
            IN \/ NearRoot(r.mag, s.mag, pw, pw)
               \/ NearRoot(r.mag, s.mag, One \div y, (One + y - 1) \div y)

RootCalls == {"pow", "sqrt", "cbrt"}

C13_TagValidity ==
    instOk # "none" =>
        /\ instOk = "accepted" <=>
              /\ instArg.type \in (IntegralTypes \ {"bool"}) \cup FloatingTypes
              /\ instArg.num >= instArg.den
        /\ instArg.type = "bool" => instOk = "rejected"
        /\ instArg.num < instArg.den => instOk = "rejected"
        /\ instArg.type \notin IntegralTypes \cup FloatingTypes =>
              instOk = "rejected"

C13_Witness ==
    /\ instArg = TArg("bool", 1, 1)
    /\ instOk = "rejected"

C13_WitnessAccepted ==
    /\ instArg = TArg("float", 11, 10)
    /\ instOk = "accepted"

(***************************************************************************)
(* PointMathBasic: operations that return a new point.                     *)
(***************************************************************************)
\* result[i] = ((1 - t) * left[i]) + (t * right[i]), the form not chosen
RECURSIVE interpolateLoop_OtherForm(_, _, _, _, _)
interpolateLoop_OtherForm(res, l, r, tt, i) ==
    IF i < Len(l)
    THEN interpolateLoop_OtherForm(
             [res EXCEPT ![i + 1] =
                 FAdd(FMul(FSub(FOne, tt), l[i + 1]), FMul(tt, r[i + 1]))],
             l, r, tt, i + 1)
    ELSE res

interpolate_OtherForm(l, r, tt) == interpolateLoop_OtherForm(l, l, r, tt, 0)

\* result[i] = left[i] + (t * (right[i] - left[i]))
RECURSIVE interpolateLoop(_, _, _, _, _)
interpolateLoop(res, l, r, tt, i) ==
    IF i < Len(l)
    THEN interpolateLoop(
             [res EXCEPT ![i + 1] =
                 FAdd(l[i + 1], FMul(tt, FSub(r[i + 1], l[i + 1])))],
             l, r, tt, i + 1)
    ELSE res

\* every component of the uninitialized result is assigned, so its initial
\* content does not matter
interpolate(l, r, tt) == interpolateLoop(l, l, r, tt, 0)

\* the second component with its two products exchanged
cross3d_Swapped(l, r) ==
    <<FSub(FMul(l[2], r[3]), FMul(l[3], r[2])),
      FSub(FMul(l[1], r[3]), FMul(l[3], r[1])),
      FSub(FMul(l[1], r[2]), FMul(l[2], r[1]))>>

cross3d(l, r) ==
    <<FSub(FMul(l[2], r[3]), FMul(l[3], r[2])),
      FSub(FMul(l[3], r[1]), FMul(l[1], r[3])),
      FSub(FMul(l[1], r[2]), FMul(l[2], r[1]))>>

(***************************************************************************)
(* PointMathBasic: projectOnto and reflectAcross.  Their bodies call        *)
(* dot(point, onto) and pNormIntPowerSum<2>(axis), names that no            *)
(* declaration in the class or in any included header provides: the calls   *)
(* are dependent, so the templates are accepted until they are              *)
(* instantiated, and every instantiation is ill-formed.                     *)
(***************************************************************************)
\* the static member functions declared by PointMathBasic
MemberFunctions ==
    {"addEq", "subEq", "mulEq", "divEq", "componentMulEq", "componentDivEq",
     "dotProduct", "angleBetween", "cross2d", "cross3d", "interpolate",
     "midpoint", "projectOnto", "reflectAcross", "rotate2d", "norm",
     "normPowerSum", "pNormIntPowerSumCt", "pNormIntPowerSumRt",
     "pNormIntCt", "pNormIntRt", "maxNorm", "pNormFloatPowerSumCt",
     "pNormFloatPowerSumRt", "pNormFloatCt", "pNormFloatRt"}

\* the names called by the instantiated body; the discarded branch of
\* if constexpr (!cAssumeUnitT) is not instantiated
projectOntoCallees(assumeUnit) ==
    {"dot"} \cup (IF assumeUnit THEN {} ELSE {"pNormIntPowerSumCt"})

reflectAcrossCallees(assumeUnit) ==
    {"dot"} \cup (IF assumeUnit THEN {} ELSE {"pNormIntPowerSum"})

\* an instantiation is well-formed when every called name is declared
Resolves(callees) == callees \subseteq MemberFunctions

\* what the callers need of the two undeclared functions
dot(l, r) == dotProduct(l, r)
pNormIntPowerSum(P, pt) == pNormIntPowerSumCt(P, pt)

RECURSIVE projectOntoLoop(_, _, _, _)
projectOntoLoop(pt, onto, scale, i) ==
    IF i < Len(pt)
    THEN projectOntoLoop([pt EXCEPT ![i + 1] = FMul(scale, onto[i + 1])],
                         onto, scale, i + 1)
    ELSE pt

projectOnto(assumeUnit, pt, onto) ==
    LET scale0 == dot(pt, onto)
        scale  == IF assumeUnit
                  THEN scale0
                  ELSE FDiv(scale0, pNormIntPowerSumCt(2, onto))
    IN  projectOntoLoop(pt, onto, scale, 0)

RECURSIVE reflectAcrossLoop(_, _, _, _)
reflectAcrossLoop(pt, axis, scale, i) ==
    IF i < Len(pt)
    THEN reflectAcrossLoop(
             [pt EXCEPT ![i + 1] = FSub(FMul(scale, axis[i + 1]), pt[i + 1])],
             axis, scale, i + 1)
    ELSE pt

reflectAcross(assumeUnit, pt, axis) ==
    LET scale0 == FMul(V8(16), dot(pt, axis))
        scale  == IF assumeUnit
                  THEN scale0
                  ELSE FDiv(scale0, pNormIntPowerSum(2, axis))
    IN  reflectAcrossLoop(pt, axis, scale, 0)

(***************************************************************************)
(* Specification of the operations returning or replacing a point:         *)
(* operands and a scalar are chosen, then calls are made on them.          *)
(***************************************************************************)
\* operands of dimension 3 whose products are exact but whose differences
\* of products need not be
CrossVals == {V8(6), V8(24)}
CrossPairs(n) ==
    IF n = 3
    THEN PointsOver(CrossVals, 3) \X PointsOver(CrossVals, 3)
    ELSE {}

GeomScalars == Scalars \cup {NZero}

InitGeom ==
    /\ dim \in Dims
    /\ \E pr \in OperandPairs(dim) \cup ExtremePairs(dim) \cup CrossPairs(dim) :
          left = pr[1] /\ right = pr[2]
    /\ scalar \in GeomScalars
    /\ IdleArith
    /\ IdleCall
    /\ IdleExt
    /\ IdleData
    /\ IdleOther

\* a call returning a point by value
ReturnsPoint(name, ops, pt) ==
    /\ call = NoCall
    /\ call' = name
    /\ operands' = ops
    /\ out' = pt
    /\ UNCHANGED <<extVars, dim, left, right, scalar, tag, unit, result, used>>
    /\ UNCHANGED <<instArg, instOk, rotation, iter, seen, store>>
    /\ UNCHANGED arithVars
    /\ UNCHANGED dataVars

Interpolate ==
    ReturnsPoint("interpolate", <<"left", "right">>,
                 interpolate(left, right, scalar))

Cross3d ==
    /\ dim = 3
    /\ \E x \in OperandNames, y \in OperandNames :
          ReturnsPoint("cross3d", <<x, y>>, cross3d(Operand(x), Operand(y)))

\* a call that replaces the first operand
Replaces(name, assumeUnit, newLeft) ==
    /\ call = NoCall
    /\ call' = name
    /\ operands' = <<"left", "right">>
    /\ unit' = assumeUnit
    /\ left' = newLeft
    /\ prev' = left
    /\ hist' = Append(hist, name)
    /\ UNCHANGED <<extVars, dim, right, scalar, orig, tag, result, used>>
    /\ UNCHANGED dataVars
    /\ UNCHANGED otherVars

\* a call whose instantiation the compiler rejects: no program contains it
IllFormed(name, assumeUnit) ==
    /\ call = NoCall
    /\ call' = name
    /\ operands' = <<"left", "right">>
    /\ unit' = assumeUnit
    /\ instOk' = "rejected"
    /\ UNCHANGED <<extVars, dim, left, right, scalar, tag, result, used>>
    /\ UNCHANGED <<out, instArg, rotation, iter, seen, store>>
    /\ UNCHANGED arithVars
    /\ UNCHANGED dataVars

ProjectOnto ==
    \E u \in BOOLEAN :
       IF Resolves(projectOntoCallees(u))
       THEN Replaces("projectOnto", u, projectOnto(u, left, right))
       ELSE IllFormed("projectOnto", u)

ReflectAcross ==
    \E u \in BOOLEAN :
       IF Resolves(reflectAcrossCallees(u))
       THEN Replaces("reflectAcross", u, reflectAcross(u, left, right))
       ELSE IllFormed("reflectAcross", u)

NextGeom ==
    \/ Interpolate
    \/ Cross3d
    \/ ProjectOnto
    \/ ReflectAcross

SpecGeom == InitGeom /\ [][NextGeom]_vars

\* C14: interpolate(a, b, t) returns a new point whose component i is
\* a[i] + t*(b[i] - a[i]); for t = 0 the result equals a; a and b are not
\* modified.  (The statement as made, for finite operands.)
C14_Original ==
    Called("interpolate") =>
        /\ Len(out) = dim
        /\ \A i \in 1..dim :
              out[i] = FAdd(left[i], FMul(scalar, FSub(right[i], left[i])))
        /\ (IsZero(scalar) /\ AllFinite(left) /\ AllFinite(right)) =>
              \A i \in 1..dim : FEq(out[i], left[i])
        /\ left = orig

\* C14 (amended): interpolate(a, b, t) returns a new point whose component i
\* is a[i] + t*(b[i] - a[i]); for t = 0 the result compares equal to a in
\* every component where a[i] and the computed difference b[i] - a[i] are
\* finite; a and b are not modified.
C14_Interpolate ==
    /\ [](Called("interpolate") =>
            /\ Len(out) = dim
            /\ \A i \in 1..dim :
                  /\ out[i] = FAdd(left[i],
                                   FMul(scalar, FSub(right[i], left[i])))
                  /\ (/\ IsZero(scalar)
                      /\ IsFin(left[i])
                      /\ IsFin(FSub(right[i], left[i]))) =>
                        FEq(out[i], left[i])
            /\ left = orig)
    /\ [][call' = "interpolate" => (left' = left /\ right' = right)]_vars

C14_Witness ==
    /\ Called("interpolate")
    /\ dim = 3
    /\ IsZero(scalar)
    /\ left = <<FOne, FNeg(V8(16)), FOne>>
    /\ right = <<FNeg(V8(16)), FNeg(V8(16)), FOne>>
    /\ out = left

\* the difference of two finite components overflows and t = 0 makes it NaN
C14_WitnessOverflow ==
    /\ Called("interpolate")
    /\ dim = 1
    /\ scalar = PZero
    /\ left = <<MaxFinite>>
    /\ right = <<FNeg(MaxFinite)>>
    /\ IsNaN(out[1])

\* every product of a component of a with a different component of b is
\* exactly representable
ExactProducts(a, b) ==
    /\ AllFinite(a)
    /\ AllFinite(b)
    /\ \A i \in 1..3, j \in 1..3 :
          i # j => Representable(SVal(a[i]) * SVal(b[j]))

\* the cross product in exact arithmetic, in units of One times the unit
ExactCross(a, b) ==
    <<SVal(a[2]) * SVal(b[3]) - SVal(a[3]) * SVal(b[2]),
      SVal(a[3]) * SVal(b[1]) - SVal(a[1]) * SVal(b[3]),
      SVal(a[1]) * SVal(b[2]) - SVal(a[2]) * SVal(b[1])>>

PointEq(p, q) == \A i \in 1..Len(p) : FEq(p[i], q[i])

CrossFormula(a, b) ==
    /\ out[1] = FSub(FMul(a[2], b[3]), FMul(a[3], b[2]))
    /\ out[2] = FSub(FMul(a[3], b[1]), FMul(a[1], b[3]))
    /\ out[3] = FSub(FMul(a[1], b[2]), FMul(a[2], b[1]))

\* C15: cross3d(a, b) = (a1*b2 - a2*b1, a2*b0 - a0*b2, a0*b1 - a1*b0);
\* for inputs with exactly representable products cross3d(a, b) =
\* -cross3d(b, a) and dotProduct(cross3d(a, b), a) =
\* dotProduct(cross3d(a, b), b) = 0.  (The statement as made.)
C15_Original ==
    Called("cross3d") =>
        LET a == Arg(1)
            b == Arg(2)
        IN  /\ CrossFormula(a, b)
            /\ ExactProducts(a, b) =>
                  /\ PointEq(out, negated(cross3d(b, a)))
                  /\ FEq(dotProduct(out, a), PZero)
                  /\ FEq(dotProduct(out, b), PZero)

\* C15 (amended): the component formula holds; for inputs with exactly
\* representable products cross3d(a, b) = -cross3d(b, a); when in addition
\* the three differences and every product and partial sum of the two dot
\* products are exactly representable, dotProduct(cross3d(a, b), a) =
\* dotProduct(cross3d(a, b), b) = 0.
C15_Cross3d ==
    Called("cross3d") =>
        LET a == Arg(1)
            b == Arg(2)
        IN  /\ CrossFormula(a, b)
            /\ ExactProducts(a, b) =>
                  /\ PointEq(out, negated(cross3d(b, a)))
                  /\ (/\ \A i \in 1..3 : Representable(ExactCross(a, b)[i])
                      /\ ExactInputs(out, a)
                      /\ ExactInputs(out, b)) =>
                        /\ FEq(dotProduct(out, a), PZero)
                        /\ FEq(dotProduct(out, b), PZero)

\* (1, -2, 1) x (-2, -2, 1) = (0, -3, -6), orthogonal to both operands
C15_Witness ==
    /\ Called("cross3d")
    /\ operands = <<"left", "right">>
    /\ left = <<FOne, FNeg(V8(16)), FOne>>
    /\ right = <<FNeg(V8(16)), FNeg(V8(16)), FOne>>
    /\ out = <<PZero, FNeg(V8(24)), FNeg(V8(48))>>
    /\ ExactInputs(out, left)
    /\ IsZero(dotProduct(out, left))
    /\ IsZero(dotProduct(out, right))

\* exact products whose differences are rounded: the result is not
\* orthogonal to the first operand
C15_WitnessRounded ==
    /\ Called("cross3d")
    /\ operands = <<"left", "right">>
    /\ left = <<V8(6), V8(6), V8(6)>>
    /\ right = <<V8(6), V8(6), V8(24)>>
    /\ ExactProducts(left, right)
    /\ AllFinite(out)
    /\ IsFin(dotProduct(out, left))
    /\ ~IsZero(dotProduct(out, left))

ProjectedScale ==
    IF unit
    THEN dotProduct(prev, right)
    ELSE FDiv(dotProduct(prev, right), pNormIntPowerSumCt(2, right))

\* C16: projectOnto<false>(point, onto) replaces point by s*onto with
\* s = dotProduct(point_old, onto)/(sum onto[i]^2); projectOnto<true> uses
\* s = dotProduct(point_old, onto); s is computed from the original point
\* before any component is overwritten; onto is unchanged.
C16_ProjectOnto ==
    Called("projectOnto") =>
        /\ instOk # "rejected"
        /\ prev = orig
        /\ \A i \in 1..dim : left[i] = FMul(ProjectedScale, right[i])

\* the call is rejected and the point (1, -2, 1) is never replaced by its
\* projection onto (-2, -2, 1)
C16_Witness ==
    /\ Called("projectOnto")
    /\ ~unit
    /\ instOk = "rejected"
    /\ left = <<FOne, FNeg(V8(16)), FOne>>
    /\ right = <<FNeg(V8(16)), FNeg(V8(16)), FOne>>

ReflectedScale ==
    IF unit
    THEN FMul(V8(16), dotProduct(prev, right))
    ELSE FDiv(FMul(V8(16), dotProduct(prev, right)),
              pNormIntPowerSumCt(2, right))

\* C17: reflectAcross<false>(point, axis) replaces point by
\* (2*dotProduct(point_old, axis)/(sum axis[i]^2))*axis - point_old;
\* reflectAcross<true> omits the division; applying the same reflection
\* twice restores the original point when the arithmetic is exact.
C17_ReflectAcross ==
    Called("reflectAcross") =>
        /\ instOk # "rejected"
        /\ prev = orig
        /\ \A i \in 1..dim :
              left[i] = FSub(FMul(ReflectedScale, right[i]), prev[i])

C17_Witness ==
    /\ Called("reflectAcross")
    /\ unit
    /\ instOk = "rejected"
    /\ left = <<FOne, FNeg(V8(16)), FOne>>
    /\ right = <<FNeg(V8(16)), FNeg(V8(16)), FOne>>

(***************************************************************************)
(* Rotation in the plane: fpMath::cmathSinCos, PointMathBasic::rotate2d    *)
(* and fpMath::Fixed2dRotation.                                            *)
(***************************************************************************)
\* the values of magnitude at most 1
UnitRange == {Fin(s, m) : s \in {0, 1}, m \in {k \in Mags : k <= One}}

\* sincos(x): the set of pairs <<sin, cos>> libm may return.  Special cases
\* are exact (C Annex F.10.1.6, F.10.1.5): a zero gives <<the zero, 1>>, an
\* infinity or a NaN gives NaNs.  Elsewhere each value is within one unit in
\* the last place of 1 of the true one, so that sin^2 + cos^2 differs from
\* 1 by less than 2^(3 - Prec).
cmathSinCos(x) ==
    IF IsNaN(x) \/ IsInf(x) THEN {<<NaN, NaN>>}
    ELSE IF IsZero(x) THEN {<<x, FOne>>}
    ELSE {sc \in UnitRange \X UnitRange :
            Abs(sc[1].mag * sc[1].mag + sc[2].mag * sc[2].mag - One * One)
                * Pow2(Prec - 3) <= One * One}

\* y computed from the already replaced x
rotate2d_Sequential(x, y, sc) ==
    LET sinA == sc[1]
        cosA == sc[2]
        newX == FSub(FMul(x, cosA), FMul(y, sinA))
    IN  <<newX, FAdd(FMul(newX, sinA), FMul(y, cosA))>>

\* the new <<x, y>> for the pair sc returned by cmathSinCos(angle)
rotate2d(x, y, sc) ==
    LET sinA == sc[1]
        cosA == sc[2]
        oldX == x
        oldY == y
    IN  <<FSub(FMul(oldX, cosA), FMul(oldY, sinA)),
          FAdd(FMul(oldX, sinA), FMul(oldY, cosA))>>

\* Fixed2dRotation(theta): the fields for the pair sc returned by
\* cmathSinCos(theta)
Fixed2dRotation(sc) == [sin |-> sc[1], cos |-> sc[2]]

\* Fixed2dRotation::apply: the new <<x, y>>
apply(rot, x, y) ==
    LET xx == FSub(FMul(x, rot.cos), FMul(y, rot.sin))
        yy == FAdd(FMul(x, rot.sin), FMul(y, rot.cos))
    IN  <<xx, yy>>

\* Fixed2dRotation::rotate: the returned pair
rotate(rot, x, y) ==
    <<FSub(FMul(x, rot.cos), FMul(y, rot.sin)),
      FAdd(FMul(x, rot.sin), FMul(y, rot.cos))>>

(***************************************************************************)
(* Specification of the rotations: left holds the coordinates <<x, y>>,    *)
(* scalar the angle, rotation the sine and cosine in use.                  *)
(***************************************************************************)
Angles == {PZero, HalfPi, FNeg(cNumPi), Inf(0)}
Coordinates == {<<V8(6), FNeg(V8(7))>>, <<FOne, FOne>>, <<MaxFinite, MinSub>>}

InitRotate ==
    /\ dim = 2
    /\ left \in Coordinates
    /\ right = left
    /\ scalar \in Angles
    /\ IdleArith
    /\ IdleCall
    /\ IdleExt
    /\ IdleData
    /\ IdleOther

Construct2dRotation ==
    /\ ctor = "none"
    /\ call = NoCall
    /\ \E sc \in cmathSinCos(scalar) : rotation' = Fixed2dRotation(sc)
    /\ ctor' = "Fixed2dRotation"
    /\ UNCHANGED <<extVars, dim, left, right, scalar>>
    /\ UNCHANGED <<values, index, thrown, got>>
    /\ UNCHANGED <<out, instArg, instOk, iter, seen, store>>
    /\ UNCHANGED arithVars
    /\ UNCHANGED callVars

\* a call that replaces x and y
ReplacesXY(name, xy) ==
    /\ call = NoCall
    /\ call' = name
    /\ left' = xy
    /\ prev' = left
    /\ hist' = Append(hist, name)
    /\ UNCHANGED <<extVars, dim, right, scalar, orig>>
    /\ UNCHANGED <<operands, tag, unit, result, used>>
    /\ UNCHANGED dataVars

Rotate2d ==
    /\ ctor = "none"
    /\ call = NoCall
    /\ \E sc \in cmathSinCos(scalar) :
          /\ ReplacesXY("rotate2d", rotate2d(left[1], left[2], sc))
          /\ rotation' = Fixed2dRotation(sc)
    /\ UNCHANGED <<out, instArg, instOk, iter, seen, store>>

Apply ==
    /\ ctor = "Fixed2dRotation"
    /\ ReplacesXY("apply", apply(rotation, left[1], left[2]))
    /\ UNCHANGED otherVars

Rotate ==
    /\ ctor = "Fixed2dRotation"
    /\ call = NoCall
    /\ call' = "rotate"
    /\ out' = rotate(rotation, left[1], left[2])
    /\ UNCHANGED <<extVars, dim, left, right, scalar>>
    /\ UNCHANGED <<operands, tag, unit, result, used>>
    /\ UNCHANGED <<instArg, instOk, rotation, iter, seen, store>>
    /\ UNCHANGED arithVars
    /\ UNCHANGED dataVars

NextRotate ==
    \/ Construct2dRotation
    \/ Rotate2d
    \/ Apply
    \/ Rotate

SpecRotate == InitRotate /\ [][NextRotate]_vars

\* the rotation of <<x, y>> by the sine and cosine in use
RotatedX(x, y) == FSub(FMul(x, rotation.cos), FMul(y, rotation.sin))
RotatedY(x, y) == FAdd(FMul(x, rotation.sin), FMul(y, rotation.cos))

\* C18: rotate2d(x, y, angle) and Fixed2dRotation(angle).apply(x, y) both
\* set x := x_old*cos - y_old*sin and y := x_old*sin + y_old*cos, both from
\* the original x and y, with the sine and cosine of the angle;
\* Fixed2dRotation::rotate returns the same pair and leaves its arguments
\* unmodified.
C18_Rotation ==
    /\ (Called("rotate2d") \/ Called("apply")) =>
          /\ <<rotation.sin, rotation.cos>> \in cmathSinCos(scalar)
          /\ prev = orig
          /\ left = <<RotatedX(prev[1], prev[2]), RotatedY(prev[1], prev[2])>>
    /\ Called("rotate") =>
          /\ <<rotation.sin, rotation.cos>> \in cmathSinCos(scalar)
          /\ left = orig
          /\ out = <<RotatedX(left[1], left[2]), RotatedY(left[1], left[2])>>

\* (0.75, -0.875) rotated by a quarter turn with sin = 1 and cos = 0
C18_Witness ==
    /\ Called("rotate2d")
    /\ scalar = HalfPi
    /\ rotation = [sin |-> FOne, cos |-> PZero]
    /\ prev = <<V8(6), FNeg(V8(7))>>
    /\ left = <<V8(7), V8(6)>>

C18_WitnessApply ==
    /\ Called("apply")
    /\ scalar = HalfPi
    /\ rotation = [sin |-> FOne, cos |-> PZero]
    /\ prev = <<V8(6), FNeg(V8(7))>>
    /\ left = <<V8(7), V8(6)>>

C18_WitnessRotate ==
    /\ Called("rotate")
    /\ scalar = HalfPi
    /\ rotation = [sin |-> FOne, cos |-> PZero]
    /\ left = <<V8(6), FNeg(V8(7))>>
    /\ out = <<V8(7), V8(6)>>

(***************************************************************************)
(* PointData iterators: those of the std::array member, positions in the   *)
(* array.  A reverse iterator holds the position one past the component it *)
(* refers to.                                                              *)
(***************************************************************************)
begin == [kind |-> "iterator", pos |-> 0]
cbegin == [kind |-> "const_iterator", pos |-> 0]
end(n) == [kind |-> "iterator", pos |-> n]
cend(n) == [kind |-> "const_iterator", pos |-> n]

\* a reverse iterator that is already at its end
rbegin_AtEnd(n) == [kind |-> "reverse_iterator", pos |-> 0]

rbegin(n) == [kind |-> "reverse_iterator", pos |-> n]
crbegin(n) == [kind |-> "const_reverse_iterator", pos |-> n]
rend == [kind |-> "reverse_iterator", pos |-> 0]
crend == [kind |-> "const_reverse_iterator", pos |-> 0]

IsReverse(it) == it.kind \in {"reverse_iterator", "const_reverse_iterator"}
IsConst(it) == it.kind \in {"const_iterator", "const_reverse_iterator"}

\* it + k
IterPlus(it, k) ==
    [it EXCEPT !.pos = IF IsReverse(it) THEN it.pos - k ELSE it.pos + k]

\* the index of the component *it refers to
DerefIndex(it) == IF IsReverse(it) THEN it.pos - 1 ELSE it.pos

\* the iterator the loop compares with
EndOf(it, n) ==
    IF it.kind = "iterator" THEN end(n)
    ELSE IF it.kind = "const_iterator" THEN cend(n)
    ELSE IF it.kind = "reverse_iterator" THEN rend
    ELSE crend

\* the iterators the four begin functions return for a point of dimension n
StartIterators(n) == {begin, cbegin, rbegin(n), crbegin(n)}

(***************************************************************************)
(* Specification of iteration: left holds the components of the point,     *)
(* prev those it had when the iteration began, seen the components read.   *)
(***************************************************************************)
IterPoints(n) ==
    {[i \in 1..n |-> V8(i)],
     [i \in 1..n |-> FNeg(V8(8 * i))],
     [i \in 1..n |-> IF i = 1 THEN NaN ELSE V8(i)]}

InitIter ==
    /\ dim \in Dims
    /\ left \in IterPoints(dim)
    /\ right = left
    /\ scalar = PZero
    /\ IdleArith
    /\ IdleCall
    /\ IdleExt
    /\ IdleData
    /\ IdleOther

\* for (auto iter = a.begin(); ...): any of the begin functions, at any time
Begin ==
    /\ iter' \in StartIterators(dim)
    /\ seen' = <<>>
    /\ prev' = left
    /\ call' = "begin"
    /\ UNCHANGED <<extVars, dim, left, right, scalar, orig, hist>>
    /\ UNCHANGED <<operands, tag, unit, result, used>>
    /\ UNCHANGED <<out, instArg, instOk, rotation, store>>
    /\ UNCHANGED dataVars

\* one round of the loop: iter != end, the component is read, possibly
\* assigned through a mutable iterator, and the iterator is incremented
Visit ==
    /\ iter # NoIter
    /\ iter # EndOf(iter, dim)
    /\ seen' = Append(seen, [index |-> DerefIndex(iter),
                             value |-> left[DerefIndex(iter) + 1]])
    /\ \E write \in IF IsConst(iter) THEN {FALSE} ELSE BOOLEAN :
          left' = IF write
                  THEN [left EXCEPT ![DerefIndex(iter) + 1] = Written]
                  ELSE left
    /\ iter' = IterPlus(iter, 1)
    /\ call' = "visit"
    /\ UNCHANGED <<extVars, dim, right, scalar, orig, prev, hist>>
    /\ UNCHANGED <<operands, tag, unit, result, used>>
    /\ UNCHANGED <<out, instArg, instOk, rotation, store>>
    /\ UNCHANGED dataVars

NextIter ==
    \/ Begin
    \/ Visit

SpecIter == InitIter /\ [][NextIter]_vars

\* the index read in round j of an iteration over n components
ExpectedIndex(it, n, j) == IF IsReverse(it) THEN n - j ELSE j - 1

\* C19: forward iteration visits exactly N components in the order
\* 0..N-1 and reverse iteration in the order N-1..0; begin() + N = end() and
\* rbegin() + N = rend(); calling begin()/rbegin() again restarts the
\* iteration; a write through a mutable iterator changes only the component
\* it refers to.
C19_Iteration ==
    /\ [](iter # NoIter =>
            /\ Len(seen) <= dim
            /\ \A j \in 1..Len(seen) :
                  /\ seen[j].index = ExpectedIndex(iter, dim, j)
                  /\ seen[j].value = prev[seen[j].index + 1]
            /\ (iter = EndOf(iter, dim)) <=> (Len(seen) = dim)
            /\ IterPlus(begin, dim) = end(dim)
            /\ IterPlus(cbegin, dim) = cend(dim)
            /\ IterPlus(rbegin(dim), dim) = rend
            /\ IterPlus(crbegin(dim), dim) = crend
            /\ Called("begin") =>
                  /\ iter \in {begin, cbegin, rbegin(dim), crbegin(dim)}
                  /\ seen = <<>>)
    /\ [][\A k \in 1..dim :
             left'[k] # left[k] =>
                /\ ~IsConst(iter)
                /\ k = DerefIndex(iter) + 1]_vars

\* a reverse pass over (0.125, 0.25, 0.375) that has overwritten the last
\* two components
C19_Witness ==
    /\ Called("visit")
    /\ dim = 3
    /\ orig = <<V8(1), V8(2), V8(3)>>
    /\ iter = [kind |-> "reverse_iterator", pos |-> 1]
    /\ seen = <<[index |-> 2, value |-> V8(3)], [index |-> 1, value |-> V8(2)]>>
    /\ left = <<V8(1), Written, Written>>

C19_WitnessForward ==
    /\ Called("visit")
    /\ dim = 3
    /\ iter = end(3)
    /\ seen = <<[index |-> 0, value |-> V8(1)], [index |-> 1, value |-> V8(2)],
                [index |-> 2, value |-> V8(3)]>>

(***************************************************************************)
(* PointData copy and move.  A heap records in which array each object's   *)
(* mData is stored: store maps the objects p and q to an array, left and   *)
(* right hold the contents of the two arrays.                              *)
(***************************************************************************)
Objects == {"p", "q"}
Other(o) == IF o = "p" THEN "q" ELSE "p"

Heap == [store |-> store, cells |-> <<left, right>>]
HeapAfter == [store |-> store', cells |-> <<left', right'>>]

\* the components of object o
mData(h, o) == h.cells[h.store[o]]

\* a copy that makes dst refer to the array of src
copyArray_Shared(h, dst, src) == [h EXCEPT !.store[dst] = h.store[src]]

\* std::array is copied element by element into the member of dst
copyArray(h, dst, src) == [h EXCEPT !.cells[h.store[dst]] = mData(h, src)]

\* the defaulted copy and move operations copy or move the one member;
\* moving an array of numbers copies them
copyConstruct(h, dst, src) == copyArray(h, dst, src)
moveConstruct(h, dst, src) == copyArray(h, dst, src)
copyAssign(h, dst, src) == copyArray(h, dst, src)
moveAssign(h, dst, src) == copyArray(h, dst, src)

\* o[i] = v
writeComponent(h, o, i, v) == [h EXCEPT !.cells[h.store[o]][i + 1] = v]

\* an in-place operation on o with result newData
replaceData(h, o, newData) == [h EXCEPT !.cells[h.store[o]] = newData]

(***************************************************************************)
(* Specification of copies: p is constructed, q is constructed from p,     *)
(* then either is assigned from the other, written or operated on.         *)
(***************************************************************************)
InitCopy ==
    /\ dim \in Dims
    /\ left \in IterPoints(dim)
    /\ right \in Garbage(dim)
    /\ scalar = V8(24)
    /\ orig = left
    /\ prev = left
    /\ hist = <<>>
    /\ IdleCall
    /\ IdleExt
    /\ IdleData
    /\ out = <<>>
    /\ instArg = NoArg
    /\ instOk = "none"
    /\ rotation = NoRotation
    /\ iter = NoIter
    /\ seen = <<>>
    /\ store = [p |-> 1, q |-> 2]

\* a call on the objects ops that leaves the heap h
OnObjects(name, ops, h) ==
    /\ call' = name
    /\ operands' = ops
    /\ store' = h.store
    /\ left' = h.cells[1]
    /\ right' = h.cells[2]
    /\ UNCHANGED <<extVars, dim, scalar, orig, prev, tag, unit, result, used>>
    /\ UNCHANGED <<values, index, thrown, got>>
    /\ UNCHANGED <<out, instArg, instOk, rotation, iter, seen>>

\* PointData q(p) and PointData q(std::move(p))
CopyConstruct ==
    /\ ctor = "none"
    /\ ctor' = "copy"
    /\ OnObjects("copyConstruct", <<"q", "p">>, copyConstruct(Heap, "q", "p"))
    /\ UNCHANGED hist

MoveConstruct ==
    /\ ctor = "none"
    /\ ctor' = "move"
    /\ OnObjects("moveConstruct", <<"q", "p">>, moveConstruct(Heap, "q", "p"))
    /\ UNCHANGED hist

\* an operation on constructed objects
Later(name) ==
    /\ ctor # "none"
    /\ Len(hist) < MaxOps
    /\ hist' = Append(hist, name)
    /\ UNCHANGED ctor

CopyAssign ==
    /\ Later("copyAssign")
    /\ \E dst \in Objects, src \in Objects :
          OnObjects("copyAssign", <<dst, src>>, copyAssign(Heap, dst, src))

MoveAssign ==
    /\ Later("moveAssign")
    /\ \E dst \in Objects, src \in Objects :
          OnObjects("moveAssign", <<dst, src>>, moveAssign(Heap, dst, src))

WriteComponent ==
    /\ Later("write")
    /\ \E o \in Objects, i \in 0..(dim - 1) :
          OnObjects("write", <<o>>, writeComponent(Heap, o, i, Written))

AddEqObject ==
    /\ Later("addEq")
    /\ \E o \in Objects :
          OnObjects("addEq", <<o, Other(o)>>,
                    replaceData(Heap, o,
                                addEq(mData(Heap, o), mData(Heap, Other(o)))))

MulEqObject ==
    /\ Later("mulEq")
    /\ \E o \in Objects :
          OnObjects("mulEq", <<o>>,
                    replaceData(Heap, o, mulEq(mData(Heap, o), scalar)))

NextCopy ==
    \/ CopyConstruct
    \/ MoveConstruct
    \/ CopyAssign
    \/ MoveAssign
    \/ WriteComponent
    \/ AddEqObject
    \/ MulEqObject

SpecCopy == InitCopy /\ [][NextCopy]_vars

CopyCalls == {"copyConstruct", "moveConstruct", "copyAssign", "moveAssign"}
ModifyingCalls == {"write", "addEq", "mulEq"}

\* C20: after q is copy- or move-constructed or assigned from p, q has
\* exactly p's component values; later writes or in-place operations on one
\* of the two leave the other unchanged: no storage is shared.
C20_IndependentCopies ==
    /\ [][call' \in CopyCalls =>
             mData(HeapAfter, operands'[1]) = mData(Heap, operands'[2])]_vars
    /\ [][call' \in ModifyingCalls =>
             mData(HeapAfter, Other(operands'[1])) =
                 mData(Heap, Other(operands'[1]))]_vars

\* q copied from p = (0.125, 0.25, 0.375), then q[0] written
C20_Witness ==
    /\ Called("write")
    /\ operands = <<"q">>
    /\ ctor = "copy"
    /\ hist = <<"write">>
    /\ mData(Heap, "p") = <<V8(1), V8(2), V8(3)>>
    /\ mData(Heap, "q") = <<Written, V8(2), V8(3)>>

(***************************************************************************)
(* Parameter passing of PointMathBasic.  A point parameter is a reference  *)
(* to the caller's object ("ref"), a const reference ("cref") or a copy    *)
(* ("value"); what the body assigns to a parameter reaches the caller's    *)
(* object only through a reference.                                        *)
(***************************************************************************)
InPlaceOps ==
    {"addEq", "subEq", "mulEq", "divEq", "componentMulEq", "componentDivEq",
     "projectOnto", "reflectAcross"}
PureOps ==
    {"dotProduct", "angleBetween", "cross2d", "cross3d", "interpolate",
     "midpoint", "norm", "normPowerSum"}

\* angleBetween declared with reference parameters
ParamModes_AngleByRef(op) ==
    IF op \in {"mulEq", "divEq"} THEN <<"ref">>
    ELSE IF op \in InPlaceOps \/ op = "angleBetween" THEN <<"ref", "cref">>
    ELSE IF op \in {"norm", "normPowerSum"} THEN <<"cref">>
    ELSE <<"cref", "cref">>

\* the point parameters of each operation
ParamModes(op) ==
    IF op \in {"mulEq", "divEq"} THEN <<"ref">>
    ELSE IF op \in InPlaceOps THEN <<"ref", "cref">>
    ELSE IF op = "angleBetween" THEN <<"value", "value">>
    ELSE IF op \in {"norm", "normPowerSum"} THEN <<"cref">>
    ELSE <<"cref", "cref">>

\* the heap after a call: finals are the values the parameters hold when
\* the body returns
Bound(h, modes, args, finals) ==
    LET h1 == IF modes[1] = "ref"
              THEN replaceData(h, args[1], finals[1])
              ELSE h
    IN  IF Len(args) >= 2 /\ modes[2] = "ref"
        THEN replaceData(h1, args[2], finals[2])
        ELSE h1

\* the parameters left and right of angleBetween when it returns
angleBetweenParams(assumeUnit, l, r) ==
    IF Len(l) = 1 \/ assumeUnit
    THEN <<l, r>>
    ELSE <<mulEq(l, pNormIntCt2(r)), mulEq(r, pNormIntCt2(l))>>

cross2d(l, r) == FSub(FMul(l[1], r[2]), FMul(l[2], r[1]))

RECURSIVE midpointLoop(_, _, _, _)
midpointLoop(res, l, r, i) ==
    IF i < Len(l)
    THEN midpointLoop([res EXCEPT ![i + 1] =
                          FDiv(FAdd(l[i + 1], r[i + 1]), V8(16))],
                      l, r, i + 1)
    ELSE res

midpoint(l, r) == midpointLoop(l, l, r, 0)

\* midpoint reads left.mData and right.mData, a protected member of
\* PointData; PointMathBasic is neither derived from it nor a friend
ProtectedMembers == {"mData"}
midpointAccesses == {"mData"}
Accessible(names) == names \cap ProtectedMembers = {}

(***************************************************************************)
(* Specification of the calls on objects: p and q hold points, any         *)
(* operation is called on any of them, the same object twice included.     *)
(***************************************************************************)
FrameTags == {InfNorm, PNormCtInt(2)}

InitFrame ==
    /\ dim \in Dims
    /\ left \in PointsOver(FewVals, dim)
    /\ right \in PointsOver(FewVals, dim)
    /\ scalar = V8(24)
    /\ orig = left
    /\ prev = left
    /\ hist = <<>>
    /\ IdleCall
    /\ IdleExt
    /\ IdleData
    /\ out = <<>>
    /\ instArg = NoArg
    /\ instOk = "none"
    /\ rotation = NoRotation
    /\ iter = NoIter
    /\ seen = <<>>
    /\ store = [p |-> 1, q |-> 2]

\* a call of operation name with the objects args for its point parameters
CallOn(name, args, finals, assumeUnit, t) ==
    /\ call = NoCall
    /\ call' = name
    /\ operands' = args
    /\ unit' = assumeUnit
    /\ tag' = t
    /\ LET h == Bound(Heap, ParamModes(name), args, finals)
       IN  /\ store' = h.store
           /\ left' = h.cells[1]
           /\ right' = h.cells[2]
    /\ UNCHANGED <<extVars, dim, scalar, orig, prev, hist, used>>
    /\ UNCHANGED dataVars
    /\ UNCHANGED <<instArg, rotation, iter, seen>>

\* a call returning nothing
CallVoid(name, args, finals, assumeUnit) ==
    /\ CallOn(name, args, finals, assumeUnit, NoTag)
    /\ UNCHANGED <<result, out, instOk>>

\* a call returning the number value
CallT(name, args, finals, assumeUnit, t, value) ==
    /\ CallOn(name, args, finals, assumeUnit, t)
    /\ result' = value
    /\ UNCHANGED <<out, instOk>>

\* a call returning the point pt
CallPoint(name, args, pt) ==
    /\ CallOn(name, args, <<mData(Heap, args[1]), mData(Heap, args[2])>>,
              FALSE, NoTag)
    /\ out' = pt
    /\ UNCHANGED <<result, instOk>>

\* a call the compiler rejects
CallRejected(name, args, assumeUnit) ==
    /\ CallOn(name, args, <<mData(Heap, args[1]), mData(Heap, args[2])>>,
              assumeUnit, NoTag)
    /\ instOk' = "rejected"
    /\ UNCHANGED <<result, out>>

FrameAddEq ==
    /\ call = NoCall
    /\ \E a \in Objects, b \in Objects :
          CallVoid("addEq", <<a, b>>,
                   <<addEq(mData(Heap, a), mData(Heap, b)), mData(Heap, b)>>,
                   FALSE)

FrameSubEq ==
    /\ call = NoCall
    /\ \E a \in Objects, b \in Objects :
          CallVoid("subEq", <<a, b>>,
                   <<subEq(mData(Heap, a), mData(Heap, b)), mData(Heap, b)>>,
                   FALSE)

FrameMulEq ==
    /\ call = NoCall
    /\ \E a \in Objects :
          CallVoid("mulEq", <<a>>, <<mulEq(mData(Heap, a), scalar)>>, FALSE)

FrameDivEq ==
    /\ call = NoCall
    /\ \E a \in Objects :
          CallVoid("divEq", <<a>>, <<divEq(mData(Heap, a), scalar)>>, FALSE)

FrameComponentMulEq ==
    /\ call = NoCall
    /\ \E a \in Objects, b \in Objects :
          CallVoid("componentMulEq", <<a, b>>,
                   <<componentMulEq(mData(Heap, a), mData(Heap, b)),
                     mData(Heap, b)>>, FALSE)

FrameComponentDivEq ==
    /\ call = NoCall
    /\ \E a \in Objects, b \in Objects :
          CallVoid("componentDivEq", <<a, b>>,
                   <<componentDivEq(mData(Heap, a), mData(Heap, b)),
                     mData(Heap, b)>>, FALSE)

FrameProjectOnto ==
    /\ call = NoCall
    /\ \E a \in Objects, b \in Objects, u \in BOOLEAN :
          IF Resolves(projectOntoCallees(u))
          THEN CallVoid("projectOnto", <<a, b>>,
                        <<projectOnto(u, mData(Heap, a), mData(Heap, b)),
                          mData(Heap, b)>>, u)
          ELSE CallRejected("projectOnto", <<a, b>>, u)

FrameReflectAcross ==
    /\ call = NoCall
    /\ \E a \in Objects, b \in Objects, u \in BOOLEAN :
          IF Resolves(reflectAcrossCallees(u))
          THEN CallVoid("reflectAcross", <<a, b>>,
                        <<reflectAcross(u, mData(Heap, a), mData(Heap, b)),
                          mData(Heap, b)>>, u)
          ELSE CallRejected("reflectAcross", <<a, b>>, u)

FrameDotProduct ==
    /\ call = NoCall
    /\ \E a \in Objects, b \in Objects :
          CallT("dotProduct", <<a, b>>, <<mData(Heap, a), mData(Heap, b)>>,
                FALSE, NoTag, dotProduct(mData(Heap, a), mData(Heap, b)))

FrameAngleBetween ==
    /\ call = NoCall
    /\ \E a \in Objects, b \in Objects, u \in BOOLEAN :
          \E outcome \in angleBetween(u, mData(Heap, a), mData(Heap, b)) :
             CallT("angleBetween", <<a, b>>,
                   angleBetweenParams(u, mData(Heap, a), mData(Heap, b)),
                   u, NoTag, outcome.value)

FrameCross2d ==
    /\ call = NoCall
    /\ dim = 2
    /\ \E a \in Objects, b \in Objects :
          CallT("cross2d", <<a, b>>, <<mData(Heap, a), mData(Heap, b)>>,
                FALSE, NoTag, cross2d(mData(Heap, a), mData(Heap, b)))

FrameCross3d ==
    /\ call = NoCall
    /\ dim = 3
    /\ \E a \in Objects, b \in Objects :
          CallPoint("cross3d", <<a, b>>,
                    cross3d(mData(Heap, a), mData(Heap, b)))

FrameInterpolate ==
    /\ call = NoCall
    /\ \E a \in Objects, b \in Objects :
          CallPoint("interpolate", <<a, b>>,
                    interpolate(mData(Heap, a), mData(Heap, b), scalar))

FrameMidpoint ==
    /\ call = NoCall
    /\ \E a \in Objects, b \in Objects :
          IF Accessible(midpointAccesses)
          THEN CallPoint("midpoint", <<a, b>>,
                         midpoint(mData(Heap, a), mData(Heap, b)))
          ELSE CallRejected("midpoint", <<a, b>>, FALSE)

FrameNorm ==
    /\ call = NoCall
    /\ \E a \in Objects, t \in FrameTags :
          \E outcome \in norm(mData(Heap, a), t) :
             CallT("norm", <<a>>, <<mData(Heap, a)>>, FALSE, t, outcome.value)

FrameNormPowerSum ==
    /\ call = NoCall
    /\ \E a \in Objects, P \in 1..MaxPower :
          CallT("normPowerSum", <<a>>, <<mData(Heap, a)>>, FALSE, PNormCtInt(P),
                normPowerSum(mData(Heap, a), PNormCtInt(P)))

NextFrame ==
    \/ FrameAddEq
    \/ FrameSubEq
    \/ FrameMulEq
    \/ FrameDivEq
    \/ FrameComponentMulEq
    \/ FrameComponentDivEq
    \/ FrameProjectOnto
    \/ FrameReflectAcross
    \/ FrameDotProduct
    \/ FrameAngleBetween
    \/ FrameCross2d
    \/ FrameCross3d
    \/ FrameInterpolate
    \/ FrameMidpoint
    \/ FrameNorm
    \/ FrameNormPowerSum

SpecFrame == InitFrame /\ [][NextFrame]_vars

\* C21: addEq, subEq, mulEq, divEq, componentMulEq, componentDivEq,
\* projectOnto and reflectAcross change only their first operand and leave a
\* distinct second operand unchanged; dotProduct, angleBetween, cross2d,
\* cross3d, interpolate, midpoint, norm and normPowerSum leave every
\* argument of the caller unchanged.
C21_OnlyTheTarget ==
    /\ [][call' \in InPlaceOps =>
             /\ \A o \in Objects :
                   o # operands'[1] =>
                      mData(HeapAfter, o) = mData(Heap, o)
             /\ scalar' = scalar]_vars
    /\ [][call' \in PureOps =>
             /\ \A o \in Objects : mData(HeapAfter, o) = mData(Heap, o)
             /\ scalar' = scalar]_vars

\* angleBetween<false>(p, q) has scaled its copy of (1, -2) by the norm of
\* (-2, -2) and p is still (1, -2)
C21_Witness ==
    /\ Called("angleBetween")
    /\ ~unit
    /\ dim = 2
    /\ operands = <<"p", "q">>
    /\ mData(Heap, "p") = <<FOne, FNeg(V8(16))>>
    /\ mData(Heap, "q") = <<FNeg(V8(16)), FNeg(V8(16))>>
    /\ angleBetweenParams(unit, left, right)[1] # left

\* addEq(p, q) changed p and left q as it was
C21_WitnessInPlace ==
    /\ Called("addEq")
    /\ dim = 2
    /\ operands = <<"p", "q">>
    /\ mData(Heap, "p") = <<FNeg(FOne), FNeg(V8(32))>>
    /\ mData(Heap, "q") = <<FNeg(V8(16)), FNeg(V8(16))>>

(***************************************************************************)
(* Two threads on disjoint points.  Each thread owns a target a and an     *)
(* operand b and runs a sequence of PointMathBasic operations; every loop  *)
(* iteration (one component) is one step, and the steps of the two threads *)
(* interleave freely.  dotProduct keeps its running sum in the local       *)
(* variable result, which has automatic storage: one slot per call.        *)
(***************************************************************************)
Threads == {1, 2}
\* a thread's call stack: empty outside a call, else the loop index i
NoFrame == <<>>
LoopIndex(t) == frame[t][1]
ThreadOps == {"addEq", "mulEq", "dotProduct"}

RECURSIVE SeqsUpTo(_, _)
SeqsUpTo(S, n) ==
    IF n = 0 THEN {<<>>}
    ELSE LET shorter == SeqsUpTo(S, n - 1)
         IN  shorter \cup {Append(q, x) : q \in shorter, x \in S}

Programs == SeqsUpTo(ThreadOps, MaxOps) \ {<<>>}

\* the storage of dotProduct's local result in a call made by thread t
ResultSlot_Static(t) == 1

ResultSlot(t) == t

ThreadScalar == FNeg(V8(16))
TargetOfSecond == <<FOne, FNeg(V8(16))>>
OperandOf(t) == IF t = 1 THEN <<V8(24), V8(6)>> ELSE <<FNeg(V8(7)), FOne>>

InitThreads ==
    /\ dim = 2
    /\ left = <<PZero, PZero>>
    /\ right = <<PZero, PZero>>
    /\ scalar = ThreadScalar
    /\ store = NoStore
    /\ out = <<>>
    /\ instArg = NoArg
    /\ instOk = "none"
    /\ rotation = NoRotation
    /\ iter = NoIter
    /\ seen = <<>>
    /\ IdleArith
    /\ IdleCall
    /\ IdleData
    /\ IdleFact
    /\ IdleInt
    /\ IdleRun
    /\ \E a1 \in PointsOver(FewVals, dim) :
          points = [t \in Threads |->
                      [a |-> IF t = 1 THEN a1 ELSE TargetOfSecond,
                       b |-> OperandOf(t)]]
    /\ prog \in [Threads -> Programs]
    /\ start = [points |-> points, prog |-> prog]
    /\ frame = [t \in Threads |-> NoFrame]
    /\ acc = [t \in Threads |-> PZero]
    /\ rets = [t \in Threads |-> <<>>]

Running(t, name) ==
    /\ prog[t] # <<>>
    /\ Head(prog[t]) = name
    /\ frame[t] # NoFrame

\* a thread enters its next operation: the loop index starts at 0, and
\* dotProduct initialises result{0.0}
CallOp(t) ==
    /\ prog[t] # <<>>
    /\ frame[t] = NoFrame
    /\ frame' = [frame EXCEPT ![t] = <<0>>]
    /\ acc' = IF Head(prog[t]) = "dotProduct"
              THEN [acc EXCEPT ![ResultSlot(t)] = PZero]
              ELSE acc
    /\ UNCHANGED <<points, start, prog, rets>>
    /\ UNCHANGED exceptThreads

\* left[i] += right[i]
StepAddEq(t) ==
    /\ Running(t, "addEq")
    /\ LoopIndex(t) < dim
    /\ LET i == LoopIndex(t) + 1
       IN  points' = [points EXCEPT
                        ![t].a[i] = FAdd(points[t].a[i], points[t].b[i])]
    /\ frame' = [frame EXCEPT ![t] = <<LoopIndex(t) + 1>>]
    /\ UNCHANGED <<start, prog, acc, rets>>
    /\ UNCHANGED exceptThreads

\* left[i] *= right
StepMulEq(t) ==
    /\ Running(t, "mulEq")
    /\ LoopIndex(t) < dim
    /\ LET i == LoopIndex(t) + 1
       IN  points' = [points EXCEPT ![t].a[i] = FMul(points[t].a[i], scalar)]
    /\ frame' = [frame EXCEPT ![t] = <<LoopIndex(t) + 1>>]
    /\ UNCHANGED <<start, prog, acc, rets>>
    /\ UNCHANGED exceptThreads

\* result = std::fma(left[i], right[i], result)
StepDotProduct(t) ==
    /\ Running(t, "dotProduct")
    /\ LoopIndex(t) < dim
    /\ LET i == LoopIndex(t) + 1
       IN  acc' = [acc EXCEPT ![ResultSlot(t)] =
                      FFma(points[t].a[i], points[t].b[i], acc[ResultSlot(t)])]
    /\ frame' = [frame EXCEPT ![t] = <<LoopIndex(t) + 1>>]
    /\ UNCHANGED <<points, start, prog, rets>>
    /\ UNCHANGED exceptThreads

\* the loop is over: the operation returns (dotProduct returns result)
ReturnOp(t) ==
    /\ prog[t] # <<>>
    /\ frame[t] = <<dim>>
    /\ rets' = IF Head(prog[t]) = "dotProduct"
               THEN [rets EXCEPT ![t] = Append(rets[t], acc[ResultSlot(t)])]
               ELSE rets
    /\ prog' = [prog EXCEPT ![t] = Tail(prog[t])]
    /\ frame' = [frame EXCEPT ![t] = NoFrame]
    /\ UNCHANGED <<points, start, acc>>
    /\ UNCHANGED exceptThreads

NextThreads ==
    \/ \E t \in Threads : CallOp(t)
    \/ \E t \in Threads : StepAddEq(t)
    \/ \E t \in Threads : StepMulEq(t)
    \/ \E t \in Threads : StepDotProduct(t)
    \/ \E t \in Threads : ReturnOp(t)

SpecThreads == InitThreads /\ [][NextThreads]_vars

\* one thread's sequence run alone, from the point pt: the final target
RECURSIVE RunAlone(_, _, _)
RunAlone(pt, b, ops) ==
    IF ops = <<>> THEN pt
    ELSE RunAlone(IF Head(ops) = "addEq" THEN addEq(pt, b)
                  ELSE IF Head(ops) = "mulEq" THEN mulEq(pt, scalar)
                  ELSE pt,
                  b, Tail(ops))

\* one thread's sequence run alone: the values its dotProduct calls return
RECURSIVE ReturnedAlone(_, _, _)
ReturnedAlone(pt, b, ops) ==
    IF ops = <<>> THEN <<>>
    ELSE LET next == RunAlone(pt, b, <<Head(ops)>>)
             rest == ReturnedAlone(next, b, Tail(ops))
         IN  IF Head(ops) = "dotProduct"
             THEN <<dotProduct(pt, b)>> \o rest
             ELSE rest

AllReturned == \A t \in Threads : prog[t] = <<>> /\ frame[t] = NoFrame

ThreadState(t) == <<points[t], prog[t], frame[t], acc[t], rets[t]>>
ThreadStateAfter(t) == <<points'[t], prog'[t], frame'[t], acc'[t], rets'[t]>>

\* C22: when two threads each run a sequence of operations on their own
\* points, every interleaving of the per-component steps ends with the
\* component values and the return values of the two sequences run one
\* after the other, and no step of one thread changes anything the other
\* thread reads or writes.
C22_DisjointThreads ==
    /\ [](AllReturned =>
             \A t \in Threads :
                /\ points[t].a =
                      RunAlone(start.points[t].a, start.points[t].b,
                               start.prog[t])
                /\ points[t].b = start.points[t].b
                /\ rets[t] =
                      ReturnedAlone(start.points[t].a, start.points[t].b,
                                    start.prog[t]))
    /\ [][\E t \in Threads :
             \A u \in Threads \ {t} : ThreadStateAfter(u) = ThreadState(u)]_vars

\* both threads ran dotProduct, and thread 2 entered its call while thread 1
\* was between two iterations of its own
C22_Witness ==
    /\ AllReturned
    /\ \A t \in Threads : start.prog[t] = <<"addEq", "dotProduct">>
    /\ \A t \in Threads : Len(rets[t]) = 1
    /\ rets[1] # rets[2]

C22_WitnessInterleaved ==
    /\ Running(1, "dotProduct") /\ frame[1] = <<1>>
    /\ Running(2, "dotProduct") /\ frame[2] = <<1>>

(***************************************************************************)
(* fpMath/Helpers.hpp: the variable template cFactorial<N>.  A value of    *)
(* std::uint64_t is held as four 16-bit limbs, least significant first, so *)
(* that a product keeps its 64-bit width: the limb carried out of the top  *)
(* is what the multiplication modulo 2^64 drops.                           *)
(***************************************************************************)
MaxFactorialArg == 20
Uint64Bits == 64
MaxExcess == 3

LimbBits == Uint64Bits \div 4
LimbBase == Pow2(LimbBits)
WordLimbs == Uint64Bits \div LimbBits

\* the std::uint64_t with the value n, for 0 <= n < 2^31
ToWord(n) ==
    [i \in 1..WordLimbs |->
        IF i = 1 THEN n % LimbBase
        ELSE IF i = 2 THEN (n \div LimbBase) % LimbBase
        ELSE 0]

\* w * k in full: the limbs of the product and the limb carried out
RECURSIVE MulLimbs(_, _, _, _)
MulLimbs(w, k, i, carry) ==
    IF i > Len(w) THEN <<carry>>
    ELSE LET p == w[i] * k + carry
         IN  <<p % LimbBase>> \o MulLimbs(w, k, i + 1, p \div LimbBase)

\* N * cFactorial<N - 1> in std::uint64_t, and what the product lost
Product64(k, w) == SubSeq(MulLimbs(w, k, 1, 0), 1, WordLimbs)
Lost64(k, w) == MulLimbs(w, k, 1, 0)[WordLimbs + 1]

\* requires(N >= 0 && N <= 20), with the bound one higher
Satisfies_OneMore(N) == N >= 0 /\ N <= MaxFactorialArg + 1

\* requires(N >= 0 && N <= 20)
Satisfies(N) == N >= 0 /\ N <= MaxFactorialArg

FactorialArgs == (0 - MaxExcess)..(MaxFactorialArg + MaxExcess)

IdlePoints ==
    /\ dim = 1
    /\ left = <<PZero>>
    /\ right = <<PZero>>
    /\ scalar = PZero
    /\ call = NoCall
    /\ operands = <<>>
    /\ tag = NoTag
    /\ unit = FALSE
    /\ result = PZero
    /\ used = {}
    /\ IdleArith
    /\ IdleData
    /\ IdleOther

InitFactorial ==
    /\ IdlePoints
    /\ IdleThreads
    /\ IdleInt
    /\ IdleRun
    /\ request \in FactorialArgs
    /\ pending = <<request>>
    /\ cFactorial = <<>>
    /\ wrapped = FALSE
    /\ verdict = "none"

Instantiated(N) == N \in DOMAIN cFactorial

\* the verdict once nothing is left to instantiate
Settled(rest) == IF rest = <<>> THEN "ok" ELSE verdict

\* cFactorial<N> is named with an N that violates the constraint
RejectFactorial ==
    /\ pending # <<>>
    /\ ~Satisfies(Head(pending))
    /\ verdict' = "rejected"
    /\ pending' = <<>>
    /\ UNCHANGED <<request, cFactorial, wrapped>>
    /\ UNCHANGED exceptFact

\* template <> cFactorial<0> = 1
Specialization ==
    /\ pending # <<>>
    /\ Head(pending) = 0
    /\ cFactorial' = (0 :> ToWord(1)) @@ cFactorial
    /\ pending' = Tail(pending)
    /\ verdict' = Settled(Tail(pending))
    /\ UNCHANGED <<request, wrapped>>
    /\ UNCHANGED exceptFact

\* the initializer of cFactorial<N> names cFactorial<N - 1>
InstantiatePrevious ==
    /\ pending # <<>>
    /\ Satisfies(Head(pending))
    /\ Head(pending) # 0
    /\ ~Instantiated(Head(pending) - 1)
    /\ pending' = <<Head(pending) - 1>> \o pending
    /\ UNCHANGED <<request, cFactorial, wrapped, verdict>>
    /\ UNCHANGED exceptFact

\* cFactorial<N> = N * cFactorial<N - 1>
Multiply ==
    /\ pending # <<>>
    /\ Satisfies(Head(pending))
    /\ Head(pending) # 0
    /\ Instantiated(Head(pending) - 1)
    /\ LET N == Head(pending)
       IN  /\ cFactorial' = (N :> Product64(N, cFactorial[N - 1])) @@ cFactorial
           /\ wrapped' = (wrapped \/ Lost64(N, cFactorial[N - 1]) # 0)
    /\ pending' = Tail(pending)
    /\ verdict' = Settled(Tail(pending))
    /\ UNCHANGED request
    /\ UNCHANGED exceptFact

NextFactorial ==
    \/ RejectFactorial
    \/ Specialization
    \/ InstantiatePrevious
    \/ Multiply

SpecFactorial == InitFactorial /\ [][NextFactorial]_vars

\* w divided by the small number k, limb by limb from the top
RECURSIVE DivLimbs(_, _, _, _)
DivLimbs(w, k, i, r) ==
    IF i = 0 THEN [q |-> w, r |-> r]
    ELSE LET cur == r * LimbBase + w[i]
         IN  DivLimbs([w EXCEPT ![i] = cur \div k], k, i - 1, cur % k)

IsZeroWord(w) == \A i \in 1..Len(w) : w[i] = 0

\* the decimal digits of a word, most significant first (none for zero)
RECURSIVE Decimal(_)
Decimal(w) ==
    IF IsZeroWord(w) THEN <<>>
    ELSE LET d == DivLimbs(w, 10, Len(w), 0)
         IN  Append(Decimal(d.q), d.r)

RECURSIVE NatDigits(_)
NatDigits(n) == IF n < 10 THEN <<n>> ELSE Append(NatDigits(n \div 10), n % 10)

\* a decimal number times the small number k, exactly
RECURSIVE MulDigits(_, _, _, _)
MulDigits(ds, k, i, carry) ==
    IF i = 0 THEN (IF carry = 0 THEN <<>> ELSE NatDigits(carry))
    ELSE LET p == ds[i] * k + carry
         IN  Append(MulDigits(ds, k, i - 1, p \div 10), p % 10)

\* N! in decimal, without any width
RECURSIVE ExactFactorial(_)
ExactFactorial(N) ==
    IF N = 0 THEN <<1>>
    ELSE LET f == ExactFactorial(N - 1) IN MulDigits(f, N, Len(f), 0)

\* the values the static_asserts of tests/fpMath/Helpers.cpp expect,
\* cFactorial<0> first
FactorialTable == <<
    <<1>>,
    <<1>>,
    <<2>>,
    <<6>>,
    <<2, 4>>,
    <<1, 2, 0>>,
    <<7, 2, 0>>,
    <<5, 0, 4, 0>>,
    <<4, 0, 3, 2, 0>>,
    <<3, 6, 2, 8, 8, 0>>,
    <<3, 6, 2, 8, 8, 0, 0>>,
    <<3, 9, 9, 1, 6, 8, 0, 0>>,
    <<4, 7, 9, 0, 0, 1, 6, 0, 0>>,
    <<6, 2, 2, 7, 0, 2, 0, 8, 0, 0>>,
    <<8, 7, 1, 7, 8, 2, 9, 1, 2, 0, 0>>,
    <<1, 3, 0, 7, 6, 7, 4, 3, 6, 8, 0, 0, 0>>,
    <<2, 0, 9, 2, 2, 7, 8, 9, 8, 8, 8, 0, 0, 0>>,
    <<3, 5, 5, 6, 8, 7, 4, 2, 8, 0, 9, 6, 0, 0, 0>>,
    <<6, 4, 0, 2, 3, 7, 3, 7, 0, 5, 7, 2, 8, 0, 0, 0>>,
    <<1, 2, 1, 6, 4, 5, 1, 0, 0, 4, 0, 8, 8, 3, 2, 0, 0, 0>>,
    <<2, 4, 3, 2, 9, 0, 2, 0, 0, 8, 1, 7, 6, 6, 4, 0, 0, 0, 0>>>>

InRange(N) == N >= 0 /\ N <= MaxFactorialArg

\* C23: for every N in 0..20, cFactorial<N> is N!, obtained by
\* cFactorial<N> = N * cFactorial<N-1> from cFactorial<0> = 1 without any
\* product wrapping modulo 2^64; an N outside 0..20 is rejected.
C23_Factorial ==
    /\ \A k \in DOMAIN cFactorial :
          /\ InRange(k)
          /\ Decimal(cFactorial[k]) = ExactFactorial(k)
          /\ Decimal(cFactorial[k]) = FactorialTable[k + 1]
    /\ ~wrapped
    /\ verdict = "ok" => InRange(request) /\ Instantiated(request)
    /\ verdict = "rejected" => ~InRange(request) /\ cFactorial = <<>>
    /\ pending = <<>> => verdict = (IF InRange(request) THEN "ok" ELSE "rejected")

\* cFactorial<20> has been computed: 2432902008176640000
C23_Witness ==
    /\ verdict = "ok"
    /\ request = MaxFactorialArg
    /\ Decimal(cFactorial[request]) =
          <<2, 4, 3, 2, 9, 0, 2, 0, 0, 8, 1, 7, 6, 6, 4, 0, 0, 0, 0>>
    /\ Lost64(request + 1, cFactorial[request]) # 0

C23_WitnessRejected ==
    /\ verdict = "rejected"
    /\ request = MaxFactorialArg + 1

(***************************************************************************)
(* _math_lib/source/IntegerMaths.cpp: primeFactorization and listDivisors. *)
(* The arithmetic is unsigned and modulo 2^width; the functions are run at *)
(* every width from 4 bits to MaxWidth on every argument of that width,    *)
(* one loop test or loop body per step, so that d * d and d += 2 wrap as   *)
(* they do at 64 bits.                                                     *)
(***************************************************************************)
MaxWidth == 8

Widths == 4..MaxWidth
Modulus(w) == Pow2(w)
Wrap(x, w) == x % Modulus(w)

\* while (d * d < n), the strict comparison where <= is written
pfGuard_Strict(dd, nn, w) == Wrap(dd * dd, w) < nn

\* while (d * d <= n)
pfGuard(dd, nn, w) == Wrap(dd * dd, w) <= nn

\* while (d * d < n)
ldGuard(dd, nn, w) == Wrap(dd * dd, w) < nn

Reverse(q) == [i \in 1..Len(q) |-> q[Len(q) + 1 - i]]

InitInteger ==
    /\ IdlePoints
    /\ IdleThreads
    /\ IdleFact
    /\ IdleRun
    /\ width \in Widths
    /\ fn \in {"primeFactorization", "listDivisors"}
    /\ arg \in 0..(Modulus(width) - 1)
    /\ nVal = arg
    /\ dVal = 0
    /\ resultVec = <<>>
    /\ resultBack = <<>>
    /\ at = "entry"

In(name, where) == fn = name /\ at = where

\* if (n < 2) return result;
PfEntry ==
    /\ In("primeFactorization", "entry")
    /\ at' = IF nVal < 2 THEN "returned" ELSE "twos"
    /\ UNCHANGED <<width, fn, arg, nVal, dVal, resultVec, resultBack>>
    /\ UNCHANGED exceptInt

\* while (n % 2 == 0) { n /= 2; result.push_back(2); }  uint64_t d = 3;
PfTwos ==
    /\ In("primeFactorization", "twos")
    /\ IF nVal % 2 = 0
       THEN /\ nVal' = nVal \div 2
            /\ resultVec' = Append(resultVec, 2)
            /\ UNCHANGED <<dVal, at>>
       ELSE /\ dVal' = Wrap(3, width)
            /\ at' = "outer"
            /\ UNCHANGED <<nVal, resultVec>>
    /\ UNCHANGED <<width, fn, arg, resultBack>>
    /\ UNCHANGED exceptInt

\* while (d * d <= n)
PfOuter ==
    /\ In("primeFactorization", "outer")
    /\ at' = IF pfGuard(dVal, nVal, width) THEN "inner" ELSE "tail"
    /\ UNCHANGED <<width, fn, arg, nVal, dVal, resultVec, resultBack>>
    /\ UNCHANGED exceptInt

\* while (n % d == 0) { n /= d; result.push_back(d); }  d += 2;
\* With d = 1 the inner loop divides by 1 and appends 1 without end.
PfInner ==
    /\ In("primeFactorization", "inner")
    /\ IF dVal = 1
       THEN /\ at' = "diverges"
            /\ UNCHANGED <<nVal, dVal, resultVec>>
       ELSE IF nVal % dVal = 0
       THEN /\ nVal' = nVal \div dVal
            /\ resultVec' = Append(resultVec, dVal)
            /\ UNCHANGED <<dVal, at>>
       ELSE /\ dVal' = Wrap(dVal + 2, width)
            /\ at' = "outer"
            /\ UNCHANGED <<nVal, resultVec>>
    /\ UNCHANGED <<width, fn, arg, resultBack>>
    /\ UNCHANGED exceptInt

\* if (n != 1) result.push_back(n);  return result;
PfTail ==
    /\ In("primeFactorization", "tail")
    /\ resultVec' = IF nVal # 1 THEN Append(resultVec, nVal) ELSE resultVec
    /\ at' = "returned"
    /\ UNCHANGED <<width, fn, arg, nVal, dVal, resultBack>>
    /\ UNCHANGED exceptInt

\* uint64_t d = 1;
LdEntry ==
    /\ In("listDivisors", "entry")
    /\ dVal' = 1
    /\ at' = "loop"
    /\ UNCHANGED <<width, fn, arg, nVal, resultVec, resultBack>>
    /\ UNCHANGED exceptInt

\* while (d * d < n) { if (n % d == 0) {...}  ++d; }
\* Once d has wrapped to 0 the test 0 < n passes and n % 0 is undefined:
\* the process is stopped by the division, or the call comes back with
\* whatever the vectors hold.
LdLoop ==
    /\ In("listDivisors", "loop")
    /\ IF ~ldGuard(dVal, nVal, width)
       THEN /\ at' = "after"
            /\ UNCHANGED <<dVal, resultVec, resultBack>>
       ELSE IF dVal = 0
       THEN /\ at' \in {"trapped", "returned"}
            /\ UNCHANGED <<dVal, resultVec, resultBack>>
       ELSE /\ IF nVal % dVal = 0
               THEN /\ resultVec' = Append(resultVec, dVal)
                    /\ resultBack' = Append(resultBack, nVal \div dVal)
               ELSE UNCHANGED <<resultVec, resultBack>>
            /\ dVal' = Wrap(dVal + 1, width)
            /\ UNCHANGED at
    /\ UNCHANGED <<width, fn, arg, nVal>>
    /\ UNCHANGED exceptInt

\* if (d * d == n) result.push_back(d);  std::copy(resultBack.rbegin(), ...)
LdAfter ==
    /\ In("listDivisors", "after")
    /\ LET front == IF Wrap(dVal * dVal, width) = nVal
                    THEN Append(resultVec, dVal) ELSE resultVec
       IN  resultVec' = front \o Reverse(resultBack)
    /\ at' = "returned"
    /\ UNCHANGED <<width, fn, arg, nVal, dVal, resultBack>>
    /\ UNCHANGED exceptInt

NextInteger ==
    \/ PfEntry
    \/ PfTwos
    \/ PfOuter
    \/ PfInner
    \/ PfTail
    \/ LdEntry
    \/ LdLoop
    \/ LdAfter

SpecInteger == InitInteger /\ [][NextInteger]_vars

Divides(k, m) == m % k = 0
IsPrime(k) == k >= 2 /\ \A j \in 2..(k - 1) : j * j > k \/ ~Divides(j, k)

RECURSIVE ProductOf(_)
ProductOf(q) == IF q = <<>> THEN 1 ELSE Head(q) * ProductOf(Tail(q))

NonDecreasing(q) == \A i \in 1..(Len(q) - 1) : q[i] <= q[i + 1]
Increasing(q) == \A i \in 1..(Len(q) - 1) : q[i] < q[i + 1]

\* the prime factorization of m, smallest factor first
IsFactorization(q, m) ==
    IF m < 2 THEN q = <<>>
    ELSE /\ \A i \in 1..Len(q) : IsPrime(q[i])
         /\ NonDecreasing(q)
         /\ ProductOf(q) = m

\* b^e modulo m
RECURSIVE PowMod(_, _, _)
PowMod(b, e, m) == IF e = 0 THEN 1 % m ELSE (b * PowMod(b, e - 1, m)) % m

\* the arguments on which the outer loop runs d through every odd value and
\* on to 1: the two largest odd numbers of the width, when prime
Unguarded(w, m) ==
    /\ m \in {Modulus(w) - 1, Modulus(w) - 3}
    /\ IsPrime(m)

\* 2^64 - 1 is a multiple of 3 and 2^64 - 3 a multiple of 13
NoneUnguardedAt64 ==
    /\ PowMod(2, Uint64Bits, 3) = 1
    /\ PowMod(2, Uint64Bits, 13) = 3

Position(where) ==
    CASE where = "entry" -> 0
      [] where = "twos" -> 1
      [] where = "outer" -> 2
      [] where = "inner" -> 3
      [] where = "tail" -> 4
      [] OTHER -> 5

\* every step moves on: d grows without wrapping, or the position advances
\* at the same d, or n shrinks at the same position
MovesOn ==
    \/ dVal' > dVal
    \/ dVal' = dVal /\ Position(at') > Position(at)
    \/ dVal' = dVal /\ at' = at /\ nVal' < nVal

\* C24: primeFactorization(n) terminates and returns the prime factors of n
\* from smallest to largest with multiplicity (the empty list for n < 2),
\* although d * d <= n and d += 2 are computed modulo 2^64.  At a width w
\* the only arguments on which the wrapped loop does not end are 2^w - 1
\* and 2^w - 3 when prime, and at 64 bits neither is prime.
C24_PrimeFactorization ==
    /\ [](In("primeFactorization", "returned") =>
             IsFactorization(resultVec, arg))
    /\ [](In("primeFactorization", "diverges") => Unguarded(width, arg))
    /\ [](NoneUnguardedAt64)
    /\ [][(fn = "primeFactorization" /\ ~Unguarded(width, arg)) =>
             MovesOn /\ at' # "diverges"]_vars

\* 251 = 2^8 - 5 is prime and larger than 15^2: d runs past 16, where d * d
\* wraps, up to 251 itself
C24_Witness ==
    /\ In("primeFactorization", "returned")
    /\ width = 8
    /\ arg = 251
    /\ dVal > arg
    /\ resultVec = <<arg>>

C24_WitnessComposite ==
    /\ In("primeFactorization", "returned")
    /\ arg = 252
    /\ resultVec = <<2, 2, 3, 3, 7>>

\* at 4 bits 13 = 2^4 - 3 is prime, and the loop does not end
C24_WitnessUnguarded ==
    /\ In("primeFactorization", "diverges")
    /\ width = 4
    /\ arg = 13

\* C25: for n >= 1 listDivisors(n) returns every positive divisor of n once,
\* in strictly increasing order (the square root once for a perfect
\* square), also for n close to the top of the range, where d * d wraps.
C25_ListDivisors ==
    (fn = "listDivisors" /\ arg >= 1) =>
        /\ at # "trapped"
        /\ at = "returned" =>
              /\ Increasing(resultVec)
              /\ \A k \in 1..arg :
                    Divides(k, arg) <=> \E i \in 1..Len(resultVec) : resultVec[i] = k

\* 240 = 2^8 - 2^4 = 15 * 16: d = 16 passes the wrapped test 0 < 240 and
\* divides 240, so 16 and 15 are recorded a second time
C25_Witness ==
    /\ In("listDivisors", "returned")
    /\ width = 8
    /\ arg = 240
    /\ \E i, j \in 1..Len(resultVec) : i # j /\ resultVec[i] = resultVec[j]

\* below the wrap the list is right: listDivisors(36)
C25_WitnessSquare ==
    /\ In("listDivisors", "returned")
    /\ arg = 36
    /\ resultVec = <<1, 2, 3, 4, 6, 9, 12, 18, 36>>

(***************************************************************************)
(* srtest: the test runner of SRTestMain.hpp.  A string is the sequence of *)
(* its characters; a line of output is a record of its fixed text, the     *)
(* string formatted into it and the number formatted into it.              *)
(***************************************************************************)
MaxArgs == 2

StartsWith(str, prefix) ==
    /\ Len(str) >= Len(prefix)
    /\ SubSeq(str, 1, Len(prefix)) = prefix

\* std::string::find: the first position of ch (from 1), 0 for npos
Find(str, ch) ==
    IF \E i \in 1..Len(str) : str[i] = ch
    THEN CHOOSE i \in 1..Len(str) :
            str[i] = ch /\ \A j \in 1..(i - 1) : str[j] # ch
    ELSE 0

LongHelp == <<"-", "-", "h", "e", "l", "p">>

\* std::format("\"{}\" is not a valid option", option)
NotValid(option) == <<"\"">> \o option \o <<"\"", " is not a valid option">>

\* the inner loop over the letters of "-abc", from position j
RECURSIVE shortOptions(_, _, _)
shortOptions(a, j, ca) ==
    IF j > Len(a) THEN ca
    ELSE IF a[j] = "h" THEN shortOptions(a, j + 1, [ca EXCEPT !.mHelp = TRUE])
    ELSE [ca EXCEPT !.mFailureMessage = NotValid(<<"-", a[j]>>)]

\* the loop going on to the next argument after an invalid one
afterInvalid_Continue(args, i) == i + 1

\* break / goto loop_end: the loop over the arguments is left
afterInvalid(args, i) == Len(args) + 1

\* the loop over argv from index i (argv[1] is the program name)
RECURSIVE parseFrom(_, _, _)
parseFrom(args, i, ca) ==
    IF i > Len(args) THEN ca
    ELSE LET a == args[i]
         IN  IF StartsWith(a, <<"-", "-">>)
             THEN IF a = LongHelp
                  THEN parseFrom(args, i + 1, [ca EXCEPT !.mHelp = TRUE])
                  ELSE parseFrom(args, afterInvalid(args, i),
                                 [ca EXCEPT !.mFailureMessage = NotValid(a)])
             ELSE IF StartsWith(a, <<"-">>)
             THEN IF Len(a) < 2
                  THEN parseFrom(args, afterInvalid(args, i),
                                 [ca EXCEPT
                                    !.mFailureMessage = NotValid(<<"-">>)])
                  ELSE LET after == shortOptions(a, 2, ca)
                       IN  IF after.mFailureMessage # ca.mFailureMessage
                           THEN parseFrom(args, afterInvalid(args, i), after)
                           ELSE parseFrom(args, i + 1, after)
             ELSE parseFrom(args, i + 1,
                            [ca EXCEPT !.mPaths = Append(@, a)])

\* CmdArgs::parse
parse(count, args, ca) ==
    IF count <= 0 THEN [ca EXCEPT !.mEmpty = TRUE]
    ELSE IF count = 1
    THEN [ca EXCEPT !.mEmpty = TRUE, !.mProgramName = args[1]]
    ELSE parseFrom(args, 2, ca)

failure(ca) == ca.mFailureMessage # <<>>

\* the registered tests, in registration order, each with the messages its
\* body records before it returns or throws
Registry ==
    <<[file |-> <<"a">>, name |-> <<"t">>,
       messages |-> <<[failureOnly |-> FALSE, msg |-> "always"]>>],
      [file |-> <<"a", "/", "b">>, name |-> <<"t">>,
       messages |-> <<[failureOnly |-> TRUE, msg |-> "on failure"]>>],
      [file |-> <<"a", "b">>, name |-> <<"t">>, messages |-> <<>>],
      [file |-> <<"a">>, name |-> <<"u">>, messages |-> <<>>]>>

AllTests == [i \in 1..Len(Registry) |-> i]

\* a prefix match that does not look at the character after the prefix
fileMatches_AnyPrefix(file, path) == StartsWith(file, path)

\* test->file.starts_with(path), and the file ends there or goes on with '/'
fileMatches(file, path) ==
    /\ StartsWith(file, path)
    /\ \/ Len(file) = Len(path)
       \/ file[Len(path) + 1] = "/"

\* the tests one path selects
testsOfPath(path) ==
    LET sepPos == Find(path, ":")
    IN  IF sepPos = 0
        THEN SelectSeq(AllTests,
                       LAMBDA t : fileMatches(Registry[t].file, path))
        ELSE LET testFile == SubSeq(path, 1, sepPos - 1)
                 testName == SubSeq(path, sepPos + 1, Len(path))
             IN  SelectSeq(AllTests,
                           LAMBDA t : /\ Registry[t].file = testFile
                                      /\ Registry[t].name = testName)

RECURSIVE testsToRun(_)
testsToRun(paths) ==
    IF paths = <<>> THEN <<>>
    ELSE testsOfPath(Head(paths)) \o testsToRun(Tail(paths))

Line(text, str, num) == [text |-> text, str |-> str, num |-> num]

\* what test->run() can do
Outcomes == {"returns", "TestFailure", "std::exception", "other"}

\* success = true is reached for every outcome
success_Always(outcome) == TRUE

\* success = true is reached only when run() returns
success(outcome) == outcome = "returns"

\* the loop goes on to the next test after a failure
afterFailure_KeepGoing(cur) == cur

\* return 1 in the failure branch of the loop
afterFailure(cur) == [stage |-> "returned", exitCode |-> <<1>>]

Arguments ==
    {LongHelp, <<"-", "h">>, <<"-", "h", "x">>, <<"-", "x", "h">>,
     <<"-", "-", "x">>, <<"-", "-">>, <<"-">>,
     <<"a">>, <<"a", ":", "t">>, <<"a", "b">>, <<"a", "/", "b">>}

ProgramName == <<"runner">>

InitRunner ==
    /\ IdlePoints
    /\ IdleThreads
    /\ IdleFact
    /\ IdleInt
    /\ argv \in {<<>>} \cup
                {<<ProgramName>> \o rest : rest \in SeqsUpTo(Arguments, MaxArgs)}
    /\ argc = Len(argv)
    /\ gCmdArgs = NewCmdArgs
    /\ selectedTests = <<>>
    /\ numRun = 0
    /\ numSuccess = 0
    /\ numFailed = 0
    /\ gInfoStream = <<>>
    /\ sTestMessages = <<>>
    /\ exitCode = <<>>
    /\ stage = "main"
    /\ ran = <<>>

\* gCmdArgs.parse(argc, argv)
Parse ==
    /\ stage = "main"
    /\ gCmdArgs' = parse(argc, argv, gCmdArgs)
    /\ stage' = "parsed"
    /\ UNCHANGED <<argc, argv, selectedTests, numRun, numSuccess, numFailed,
                   gInfoStream, sTestMessages, exitCode, ran>>
    /\ UNCHANGED exceptRun

\* if (gCmdArgs.failure()) { ...; return 1; }
ReportFailure ==
    /\ stage = "parsed"
    /\ failure(gCmdArgs)
    /\ gInfoStream' = Append(gInfoStream,
                             Line("Failed to parse arguments: ",
                                  gCmdArgs.mFailureMessage, 0))
    /\ exitCode' = <<1>>
    /\ stage' = "returned"
    /\ UNCHANGED <<argc, argv, gCmdArgs, selectedTests, numRun, numSuccess,
                   numFailed, sTestMessages, ran>>
    /\ UNCHANGED exceptRun

\* if (gCmdArgs.empty() || gCmdArgs.help()) { printHelp; return 1; }
PrintHelp ==
    /\ stage = "parsed"
    /\ ~failure(gCmdArgs)
    /\ gCmdArgs.mEmpty \/ gCmdArgs.mHelp
    /\ gInfoStream' = Append(gInfoStream,
                             Line("Usage: {} [-h] [paths...]",
                                  gCmdArgs.mProgramName, 0))
    /\ exitCode' = <<1>>
    /\ stage' = "returned"
    /\ UNCHANGED <<argc, argv, gCmdArgs, selectedTests, numRun, numSuccess,
                   numFailed, sTestMessages, ran>>
    /\ UNCHANGED exceptRun

\* the banner, testsToRun(gCmdArgs.paths()) and the three counters
Select ==
    /\ stage = "parsed"
    /\ ~failure(gCmdArgs)
    /\ ~(gCmdArgs.mEmpty \/ gCmdArgs.mHelp)
    /\ selectedTests' = testsToRun(gCmdArgs.mPaths)
    /\ gInfoStream' = gInfoStream \o
          <<Line("Found {} registered tests", <<>>, Len(Registry)),
            Line("Selected {} tests to run", <<>>, Len(selectedTests'))>>
    /\ stage' = "running"
    /\ UNCHANGED <<argc, argv, gCmdArgs, numRun, numSuccess, numFailed,
                   sTestMessages, exitCode, ran>>
    /\ UNCHANGED exceptRun

\* what the catch clauses and the success/failure branch write
Report(t, outcome) ==
    <<Line("Running", Registry[t].file \o <<":">> \o Registry[t].name, 0)>>
    \o (IF outcome = "returns" THEN <<>>
        ELSE <<Line("Test failure", <<outcome>>, 0)>>)
    \o <<Line(IF success(outcome) THEN "Success" ELSE "Failure", <<>>, 0)>>

\* one iteration of the loop over selectedTests
RunTest ==
    /\ stage = "running"
    /\ numRun < Len(selectedTests)
    /\ \E outcome \in Outcomes :
          LET t == selectedTests[numRun + 1]
              next == IF success(outcome)
                      THEN [stage |-> stage, exitCode |-> exitCode]
                      ELSE afterFailure([stage |-> stage,
                                         exitCode |-> exitCode])
          IN  /\ sTestMessages' = sTestMessages \o Registry[t].messages
              /\ gInfoStream' = gInfoStream \o Report(t, outcome)
              /\ ran' = Append(ran, [test |-> t, outcome |-> outcome])
              /\ numRun' = numRun + 1
              /\ numSuccess' = IF success(outcome)
                               THEN numSuccess + 1 ELSE numSuccess
              /\ numFailed' = IF success(outcome)
                              THEN numFailed ELSE numFailed + 1
              /\ stage' = next.stage
              /\ exitCode' = next.exitCode
    /\ UNCHANGED <<argc, argv, gCmdArgs, selectedTests>>
    /\ UNCHANGED exceptRun

\* the results and return numFailed > 0 ? 1 : 0
Summary ==
    /\ stage = "running"
    /\ numRun = Len(selectedTests)
    /\ gInfoStream' = gInfoStream \o
          <<Line("Completed running {} tests", <<>>, numRun),
            Line("Successes: ", <<>>, numSuccess),
            Line("Failures: ", <<>>, numFailed)>>
    /\ exitCode' = IF numFailed > 0 THEN <<1>> ELSE <<0>>
    /\ stage' = "returned"
    /\ UNCHANGED <<argc, argv, gCmdArgs, selectedTests, numRun, numSuccess,
                   numFailed, sTestMessages, ran>>
    /\ UNCHANGED exceptRun

NextRunner ==
    \/ Parse
    \/ ReportFailure
    \/ PrintHelp
    \/ Select
    \/ RunTest
    \/ Summary

SpecRunner == InitRunner /\ [][NextRunner]_vars

(***************************************************************************)
(* Claims about the test runner (checked under SpecRunner).                *)
(***************************************************************************)
Threw(r) == r.outcome # "returns"
SomeTestFailed == \E i \in 1..Len(ran) : Threw(ran[i])

\* every selected test was run, in order, and returned
AllSelectedPassed ==
    /\ Len(ran) = Len(selectedTests)
    /\ \A i \in 1..Len(ran) :
          ran[i].test = selectedTests[i] /\ ~Threw(ran[i])

\* C26: main returns nonzero whenever a selected test failed (by a
\* TestFailure, another std::exception or any other exception), and returns
\* 0 only when the arguments parsed without error, at least one argument
\* was given, help was not requested and every selected test ran to
\* completion without throwing.
C26_ExitCode ==
    /\ SomeTestFailed => stage = "returned" /\ exitCode = <<1>>
    /\ exitCode = <<0>> =>
          /\ gCmdArgs.mFailureMessage = <<>>
          /\ argc > 1
          /\ ~gCmdArgs.mHelp
          /\ AllSelectedPassed

\* the second of two selected tests throws something that is no
\* std::exception
C26_Witness ==
    /\ stage = "returned"
    /\ Len(ran) = 2
    /\ ran[2].outcome = "other"
    /\ exitCode = <<1>>

C26_WitnessZero ==
    /\ exitCode = <<0>>
    /\ Len(ran) > 2

\* the message appears in a line of the runner's output
Printed(m) == \E i \in 1..Len(gInfoStream) : gInfoStream[i].text = m

MessagesOf(r) == Registry[r.test].messages

\* C27: a message recorded during a test with TEST_MESSAGE_ALWAYS is printed
\* in the runner's output whether the test passes or fails, and one recorded
\* with TEST_MESSAGE_FAILURE is printed exactly when that test fails.
C27_Messages ==
    \A i \in 1..Len(ran) :
       \A k \in 1..Len(MessagesOf(ran[i])) :
          LET m == MessagesOf(ran[i])[k]
          IN  IF m.failureOnly
              THEN Printed(m.msg) <=> Threw(ran[i])
              ELSE Printed(m.msg)

\* the first test recorded a message for every outcome and returned; the
\* message is still in sTestMessages when the runner has finished, and no
\* line of the output holds it
C27_Witness ==
    /\ stage = "returned"
    /\ Len(ran) >= 2
    /\ ran[1] = [test |-> 1, outcome |-> "returns"]
    /\ sTestMessages[1] = [failureOnly |-> FALSE, msg |-> "always"]
    /\ ~Printed("always")

HasColon(path) == \E i \in 1..Len(path) : path[i] = ":"

\* the part of 'file:name' before the first colon, and the part after it
FilePart(path) ==
    CHOOSE f \in {SubSeq(path, 1, i - 1) : i \in 1..Len(path)} :
       /\ ~HasColon(f)
       /\ Len(path) > Len(f)
       /\ path[Len(f) + 1] = ":"
NamePart(path) == SubSeq(path, Len(FilePart(path)) + 2, Len(path))

\* the file is the path, or the path followed by '/' and more
FileUnder(file, path) ==
    \/ file = path
    \/ \E rest \in {SubSeq(file, i, Len(file)) : i \in 1..Len(file)} :
          file = path \o <<"/">> \o rest

\* the tests a path stands for
Matched(path) ==
    IF HasColon(path)
    THEN {t \in 1..Len(Registry) :
             /\ Registry[t].file = FilePart(path)
             /\ Registry[t].name = NamePart(path)}
    ELSE {t \in 1..Len(Registry) : FileUnder(Registry[t].file, path)}

\* the members of a set of numbers in increasing order
RECURSIVE Ascending(_)
Ascending(S) ==
    IF S = {} THEN <<>>
    ELSE LET least == CHOOSE x \in S : \A y \in S : x <= y
         IN  <<least>> \o Ascending(S \ {least})

RECURSIVE InArgumentOrder(_)
InArgumentOrder(paths) ==
    IF paths = <<>> THEN <<>>
    ELSE Ascending(Matched(Head(paths))) \o InArgumentOrder(Tail(paths))

Occurrences(q, x) == Cardinality({i \in 1..Len(q) : q[i] = x})

HasSelected ==
    \E i \in 1..Len(gInfoStream) :
       gInfoStream[i].text = "Selected {} tests to run"

\* C28: testsToRun(paths) returns, path by path in argument order and
\* within a path in registration order, every test whose file is the path
\* or begins with the path followed by '/' (path without ':'), or whose
\* file and name are the two parts of 'file:name'; a test matched by k of
\* the paths appears k times.
C28_TestsToRun ==
    HasSelected =>
        /\ selectedTests = InArgumentOrder(gCmdArgs.mPaths)
        /\ \A t \in 1..Len(Registry) :
              Occurrences(selectedTests, t) =
                 Cardinality({i \in 1..Len(gCmdArgs.mPaths) :
                                 t \in Matched(gCmdArgs.mPaths[i])})

\* test-runner a a:t selects a:t, a/b:t and a:u for the directory a (not
\* ab:t), then a:t once more
C28_Witness ==
    /\ HasSelected
    /\ gCmdArgs.mPaths = <<<<"a">>, <<"a", ":", "t">>>>
    /\ selectedTests = <<1, 2, 4, 1>>

SummaryPrinted ==
    \E i \in 1..Len(gInfoStream) :
       gInfoStream[i].text = "Completed running {} tests"

C29_WitnessSummary ==
    /\ SummaryPrinted
    /\ numRun = 4
    /\ numSuccess = 4

IsLong(a) == Len(a) >= 2 /\ a[1] = "-" /\ a[2] = "-"
IsShort(a) == Len(a) >= 1 /\ a[1] = "-" /\ ~IsLong(a)
IsPositional(a) == ~IsLong(a) /\ ~IsShort(a)
OtherLetters(a) == {j \in 2..Len(a) : a[j] # "h"}
Least(S) == CHOOSE x \in S : \A y \in S : x <= y

\* '--x' other than '--help', a bare '-', or a letter other than 'h'
IsInvalid(a) ==
    \/ IsLong(a) /\ a # LongHelp
    \/ a = <<"-">>
    \/ IsShort(a) /\ OtherLetters(a) # {}

\* the option an invalid argument is reported as
Offending(a) ==
    IF IsLong(a) \/ a = <<"-">> THEN a
    ELSE <<"-", a[Least(OtherLetters(a))]>>

Given == IF argv = <<>> THEN <<>> ELSE Tail(argv)

\* the position of the first invalid argument, 0 when all are valid
FirstInvalid ==
    IF \E i \in 1..Len(Given) : IsInvalid(Given[i])
    THEN Least({i \in 1..Len(Given) : IsInvalid(Given[i])})
    ELSE 0

BeforeInvalid ==
    IF FirstInvalid = 0 THEN Given ELSE SubSeq(Given, 1, FirstInvalid - 1)

\* help was asked for before the first invalid option
HelpBeforeInvalid ==
    \/ \E i \in 1..Len(BeforeInvalid) :
          \/ BeforeInvalid[i] = LongHelp
          \/ IsShort(BeforeInvalid[i])
    \/ /\ FirstInvalid # 0
       /\ IsShort(Given[FirstInvalid])
       /\ OtherLetters(Given[FirstInvalid]) # {}
       /\ Least(OtherLetters(Given[FirstInvalid])) > 2

\* C30: CmdArgs::parse goes through the arguments from left to right and
\* stops at the first invalid option: the failure message names it, no
\* later argument changes help or paths, and the positional arguments
\* before it are in paths in order; main then reports the failure and
\* returns 1 even if help was also given, and with no arguments it prints
\* the help and returns 1.
C30_Parse ==
    /\ (stage # "main" /\ argc > 1) =>
          /\ gCmdArgs.mFailureMessage =
                (IF FirstInvalid = 0 THEN <<>>
                 ELSE NotValid(Offending(Given[FirstInvalid])))
          /\ gCmdArgs.mPaths = SelectSeq(BeforeInvalid, IsPositional)
          /\ gCmdArgs.mHelp = HelpBeforeInvalid
    /\ (stage = "returned" /\ argc > 1 /\ FirstInvalid # 0) =>
          /\ exitCode = <<1>>
          /\ gInfoStream = <<Line("Failed to parse arguments: ",
                                  NotValid(Offending(Given[FirstInvalid])),
                                  0)>>
    /\ (stage = "returned" /\ argc <= 1) =>
          /\ exitCode = <<1>>
          /\ Len(gInfoStream) = 1
          /\ gInfoStream[1].text = "Usage: {} [-h] [paths...]"

\* test-runner a -hx: the failure names "-x", the path before it is kept,
\* the h before the x has set help, and main returns 1 with the failure
\* line alone
C30_Witness ==
    /\ stage = "returned"
    /\ Given = <<<<"a">>, <<"-", "h", "x">>>>
    /\ gCmdArgs.mFailureMessage = NotValid(<<"-", "x">>)
    /\ gCmdArgs.mPaths = <<<<"a">>>>
    /\ gCmdArgs.mHelp
    /\ exitCode = <<1>>

C30_WitnessLater ==
    /\ stage = "returned"
    /\ Given = <<<<"-", "-", "x">>, LongHelp>>
    /\ ~gCmdArgs.mHelp

C30_WitnessEmpty ==
    /\ stage = "returned"
    /\ argc = 0
    /\ gCmdArgs.mEmpty

=============================================================================
